---- MODULE Spec2Model ----
(***************************************************************************)
(* Request pipeline of the Telegram MCP gateway: response cache, global    *)
(* and per-chat rate limiters, circuit breaker and the retry loop of       *)
(* callTelegramAPI.  Times are milliseconds of Date.now().                 *)
(***************************************************************************)
EXTENDS Integers, Sequences, FiniteSets, TLC

VARIABLES
  now,             \* Date.now()
  breaker,         \* CircuitBreaker: state, consecutiveFailures, openedAt
  gauge,           \* circuitBreakerState metric gauge
  requests,        \* RateLimiter.requests
  chatTimestamps,  \* PerChatRateLimiter.chatTimestamps
  lastCleanup,     \* PerChatRateLimiter.lastCleanup
  cache,           \* cache Map: key -> [data, expiresAt]
  config,          \* getConfig(): rateLimitPerMinute, maxRetries, requestTimeout
  inv,             \* the invocations of callTelegramAPI in progress
  last,            \* observation: the operation just performed and its return
  streak,          \* observation: qualifying failures reported since the last success
  reopenedAt,      \* observation: time of the last failure reported in half-open, or 0
  stored,          \* observation: a setCache call not yet overwritten or cleared
  pendingUpdates,  \* the webhook server's queue of updates not yet retrieved
  unswept          \* observation: what chatTimestamps would hold had no sweep run,
                   \* kept by the direct calls of recordChatMessage

vars == <<now, breaker, gauge, requests, chatTimestamps, lastCleanup, cache,
          config, inv, last, streak, reopenedAt, stored, pendingUpdates, unswept>>

\* ------------------------------------------------------------------ bounds
T0 == 100000          \* Date.now() when the process starts
MaxTime == 160000     \* the clock is not advanced beyond this instant
MaxFailures == 7      \* cap on consecutiveFailures (it is unbounded in the code)

Undefined == 0 - 1   \* JS undefined (an absent error code, option or argument)
Null == 0 - 2        \* JS null (getCached's miss)

\* error codes an upstream reply (or a direct caller of the breaker) can carry
ErrorCodes == {400, 429, 499, 500, 503}

\* ------------------------------------------------------------------ JS values
\* a JS value of a params object: a number, a string (its characters) or undefined
Num(n) == [t |-> "number", v |-> n]
Str(chars) == [t |-> "string", v |-> chars]
Undef == [t |-> "undefined", v |-> 0]

\* params[field], Undef when the object has no such field
Get(params, field) ==
  LET at == {k \in 1..Len(params) : params[k][1] = field} IN
  IF at = {} THEN Undef ELSE params[CHOOSE k \in at : TRUE][2]

Digits == <<"0", "1", "2", "3", "4", "5", "6", "7", "8", "9">>
DigitOf(c) == (CHOOSE k \in 1..10 : Digits[k] = c) - 1
IsDigit(c) == \E k \in 1..10 : Digits[k] = c

RECURSIVE NatToString(_)
NatToString(n) ==
  IF n < 10 THEN <<Digits[n + 1]>> ELSE NatToString(n \div 10) \o <<Digits[(n % 10) + 1]>>

\* String(value) for a number or a string
String(value) ==
  IF value.t = "string" THEN value.v
  ELSE IF value.v < 0 THEN <<"-">> \o NatToString(0 - value.v) ELSE NatToString(value.v)

RECURSIVE DigitsValue(_, _)
DigitsValue(chars, acc) ==
  IF chars = <<>> \/ ~IsDigit(Head(chars)) THEN acc
  ELSE DigitsValue(Tail(chars), 10 * acc + DigitOf(Head(chars)))

\* parseInt(chars, 10): [nan, n]; an optional sign, then the leading digits
parseInt(chars) ==
  LET neg == chars # <<>> /\ Head(chars) = "-"
      body == IF chars # <<>> /\ Head(chars) \in {"-", "+"} THEN Tail(chars) ELSE chars
  IN IF body = <<>> \/ ~IsDigit(Head(body))
     THEN [nan |-> TRUE, n |-> 0]
     ELSE [nan |-> FALSE,
           n |-> IF neg THEN 0 - DigitsValue(body, 0) ELSE DigitsValue(body, 0)]

\* ------------------------------------------------------------------ maps and observations
EmptyMap == [k \in {} |-> 0]
MapPut(map, k, v) == [x \in DOMAIN map \cup {k} |-> IF x = k THEN v ELSE map[x]]
MapDelete(map, ks) == [x \in DOMAIN map \ ks |-> map[x]]

NoOp == [op |-> "none"]

NoStore == [method |-> "none"]

\* ------------------------------------------------------------------ circuit breaker
threshold == 5
resetMs == 30000

circuitBreakerStateToNumber(s) ==
  IF s = "closed" THEN 0 ELSE IF s = "half-open" THEN 1 ELSE 2

NewCircuitBreaker == [state |-> "closed", consecutiveFailures |-> 0, openedAt |-> 0]

\* isOpen(): the value returned and the breaker afterwards, at time t
isOpen_StrictlyAfter(b, t) ==
  IF b.state = "open"
  THEN IF t - b.openedAt > resetMs
       THEN [ret |-> FALSE, b |-> [b EXCEPT !.state = "half-open"]]
       ELSE [ret |-> TRUE, b |-> b]
  ELSE [ret |-> FALSE, b |-> b]

isOpen(b, t) ==
  IF b.state = "open"
  THEN IF t - b.openedAt >= resetMs
       THEN [ret |-> FALSE, b |-> [b EXCEPT !.state = "half-open"]]
       ELSE [ret |-> TRUE, b |-> b]
  ELSE [ret |-> FALSE, b |-> b]

recordSuccess_KeepsCount(b) == [b EXCEPT !.state = "closed"]

recordSuccess(b) == [b EXCEPT !.consecutiveFailures = 0, !.state = "closed"]

\* recordFailure(errorCode?) at time t
recordFailure_CountsRateLimit(b, errorCode, t) ==
  IF errorCode # Undefined /\ errorCode < 429
  THEN b
  ELSE LET n == b.consecutiveFailures + 1 IN
       IF n >= threshold
       THEN [state |-> "open", consecutiveFailures |-> n, openedAt |-> t]
       ELSE [b EXCEPT !.consecutiveFailures = n]

recordFailure_OffByOne(b, errorCode, t) ==
  IF errorCode # Undefined /\ errorCode < 500
  THEN b
  ELSE LET n == b.consecutiveFailures + 1 IN
       IF n > threshold
       THEN [state |-> "open", consecutiveFailures |-> n, openedAt |-> t]
       ELSE [b EXCEPT !.consecutiveFailures = n]

recordFailure_ClientErrorResets(b, errorCode, t) ==
  IF errorCode # Undefined /\ errorCode < 500
  THEN [b EXCEPT !.consecutiveFailures = 0]
  ELSE LET n == b.consecutiveFailures + 1 IN
       IF n >= threshold
       THEN [state |-> "open", consecutiveFailures |-> n, openedAt |-> t]
       ELSE [b EXCEPT !.consecutiveFailures = n]

recordFailure(b, errorCode, t) ==
  IF errorCode # Undefined /\ errorCode < 500
  THEN b
  ELSE LET n == b.consecutiveFailures + 1 IN
       IF n >= threshold
       THEN [state |-> "open", consecutiveFailures |-> n, openedAt |-> t]
       ELSE [b EXCEPT !.consecutiveFailures = n]

\* the gauge after recordFailure: set only on the branch that opens the breaker
recordFailureGauge(b, errorCode, g) ==
  IF errorCode # Undefined /\ errorCode < 500
  THEN g
  ELSE IF b.consecutiveFailures + 1 >= threshold
       THEN circuitBreakerStateToNumber("open")
       ELSE g

\* a failure the breaker counts: no error code, or error code >= 500
Qualifying(errorCode) == errorCode = Undefined \/ errorCode >= 500

\* ------------------------------------------------------------------ response cache
\* a params object: the sequence of its <<field, value>> entries in insertion order
PEmpty == <<>>
PChat(c) == << <<"chat_id", c>> >>
PAB == << <<"a", Num(1)>>, <<"b", Num(2)>> >>
PBA == << <<"b", Num(2)>>, <<"a", Num(1)>> >>

\* CACHE_TTL[method], Undefined for a method that has no entry
CACHE_TTL(method) ==
  CASE method = "getMe" -> 60 * 60 * 1000
    [] method = "getWebhookInfo" -> 60 * 1000
    [] method = "getStickerSet" -> 5 * 60 * 1000
    [] method = "getChat" -> 2 * 60 * 1000
    [] OTHER -> Undefined

isCacheable(method) == CACHE_TTL(method) # Undefined

\* JSON.stringify(params): entries in insertion order, undefined-valued ones dropped
Stringify(params) == SelectSeq(params, LAMBDA e : e[2].t # "undefined")

\* two params objects with the same fields and values, in any order
SameObject(p, q) == {p[k] : k \in 1..Len(p)} = {q[k] : k \in 1..Len(q)}

\* `${method}:${JSON.stringify(params)}`
generateKey(method, params) == <<method, Stringify(params)>>

\* getCached(method, params) at time t: the value returned and the cache afterwards
getCached(c, method, params, t) ==
  LET key == generateKey(method, params) IN
  IF key \notin DOMAIN c
  THEN [ret |-> Null, c |-> c]
  ELSE IF t > c[key].expiresAt
       THEN [ret |-> Null, c |-> MapDelete(c, {key})]
       ELSE [ret |-> c[key].data, c |-> c]

setCache_RegisteredTtlOnly(c, method, params, data, ttlMs, t) ==
  LET key == generateKey(method, params)
      ttl == CACHE_TTL(method)
  IN IF ttl = Undefined \/ ttl = 0
     THEN c
     ELSE MapPut(c, key, [data |-> data, expiresAt |-> t + ttl])

\* setCache(method, params, data, ttlMs?) at time t
setCache(c, method, params, data, ttlMs, t) ==
  LET key == generateKey(method, params)
      ttl == IF ttlMs # Undefined THEN ttlMs ELSE CACHE_TTL(method)
  IN IF ttl = Undefined \/ ttl = 0
     THEN c
     ELSE MapPut(c, key, [data |-> data, expiresAt |-> t + ttl])

clearCache(c) == EmptyMap

clearCacheForMethod_Everything(c, method) == EmptyMap

\* clearCacheForMethod(method): drops the keys that start with `${method}:`
clearCacheForMethod(c, method) ==
  MapDelete(c, {k \in DOMAIN c : k[1] = method})

\* ------------------------------------------------------------------ global rate limiter
windowMs == 60000

\* RateLimiter.cleanup(): drops the instants not newer than one minute ago
cleanup(reqs, t) == SelectSeq(reqs, LAMBDA time : time > t - windowMs)

\* canMakeRequest(): the value returned and the requests afterwards
canMakeRequest_Inclusive(reqs, limitPerMinute, t) ==
  LET kept == cleanup(reqs, t) IN [ret |-> Len(kept) <= limitPerMinute, reqs |-> kept]

canMakeRequest(reqs, limitPerMinute, t) ==
  LET kept == cleanup(reqs, t) IN [ret |-> Len(kept) < limitPerMinute, reqs |-> kept]

\* getWaitTime()
getWaitTime(reqs, limitPerMinute, t) ==
  LET kept == cleanup(reqs, t) IN
  IF Len(kept) < limitPerMinute THEN 0
  ELSE LET w == windowMs - (t - kept[1]) IN IF w > 0 THEN w ELSE 0

recordRequest(reqs, t) == Append(reqs, t)

\* Math.ceil(ms / 1000)
CeilSeconds(ms) == (ms + 999) \div 1000

\* ------------------------------------------------------------------ per-chat rate limiter
cleanupIntervalMs == 60000
privateMessageIntervalMs == 1000
groupMessagesPerMinute == 20

MESSAGE_SENDING_METHODS ==
  {"sendMessage", "sendPhoto", "sendAudio", "sendDocument", "sendVideo", "sendAnimation",
   "sendVoice", "sendVideoNote", "sendMediaGroup", "sendLocation", "sendVenue",
   "sendContact", "sendPoll", "sendDice", "sendSticker", "sendInvoice", "sendGame",
   "copyMessage", "forwardMessage"}

\* the limiter is [chatTimestamps, lastCleanup]; lastCleanup = Undefined until
\* getPerChatLimiter() constructs it
getPerChatLimiter(lim, t) ==
  IF lim.lastCleanup = Undefined
  THEN [chatTimestamps |-> EmptyMap, lastCleanup |-> t]
  ELSE lim

\* the per-chat limiter as an invocation finds it
Limiter == getPerChatLimiter([chatTimestamps |-> chatTimestamps,
                              lastCleanup |-> lastCleanup], now)

isGroupChat(chatId) ==
  IF chatId.t = "string"
  THEN LET r == parseInt(chatId.v) IN r.nan \/ r.n < 0
  ELSE chatId.v < 0

Recent(timestamps, t) == SelectSeq(timestamps, LAMBDA x : x > t - windowMs)

maybeCleanup_ClearsAll(lim, t) ==
  IF t - lim.lastCleanup < cleanupIntervalMs
  THEN lim
  ELSE [chatTimestamps |-> EmptyMap, lastCleanup |-> t]

maybeCleanup(lim, t) ==
  IF t - lim.lastCleanup < cleanupIntervalMs
  THEN lim
  ELSE [chatTimestamps |->
          [id \in {k \in DOMAIN lim.chatTimestamps :
                     Recent(lim.chatTimestamps[k], t) # <<>>}
             |-> Recent(lim.chatTimestamps[id], t)],
        lastCleanup |-> t]

TimestampsOf(lim, chatId) ==
  IF String(chatId) \in DOMAIN lim.chatTimestamps
  THEN lim.chatTimestamps[String(chatId)] ELSE <<>>

\* canSendToChat(chatId): the value returned and the limiter afterwards
canSendToChat(lim0, chatId, t) ==
  LET lim == maybeCleanup(lim0, t)
      timestamps == TimestampsOf(lim, chatId)
  IN [lim |-> lim,
      ret |-> IF isGroupChat(chatId)
              THEN Len(Recent(timestamps, t)) < groupMessagesPerMinute
              ELSE timestamps = <<>>
                   \/ t - timestamps[Len(timestamps)] >= privateMessageIntervalMs]

\* getWaitTimeForChat(chatId), called after canSendToChat at the same instant
getWaitTimeForChat(lim0, chatId, t) ==
  LET lim == maybeCleanup(lim0, t)
      timestamps == TimestampsOf(lim, chatId)
      recent == Recent(timestamps, t)
  IN IF timestamps = <<>> THEN 0
     ELSE IF isGroupChat(chatId)
          THEN IF Len(recent) < groupMessagesPerMinute THEN 0
               ELSE LET w == windowMs - (t - recent[1]) IN IF w > 0 THEN w ELSE 0
          ELSE LET elapsed == t - timestamps[Len(timestamps)] IN
               IF elapsed >= privateMessageIntervalMs THEN 0
               ELSE privateMessageIntervalMs - elapsed

recordChatMessage_EveryChat(lim, chatId, t) ==
  [lim EXCEPT !.chatTimestamps =
     [id \in DOMAIN lim.chatTimestamps \cup {String(chatId)} |->
        Append(IF id \in DOMAIN lim.chatTimestamps THEN lim.chatTimestamps[id] ELSE <<>>, t)]]

recordChatMessage(lim, chatId, t) ==
  [lim EXCEPT !.chatTimestamps =
     MapPut(lim.chatTimestamps, String(chatId), Append(TimestampsOf(lim, chatId), t))]

\* ------------------------------------------------------------------ upload check
StartsWith(chars, prefix) ==
  Len(chars) >= Len(prefix) /\ SubSeq(chars, 1, Len(prefix)) = prefix

FilePrefix == <<"f", "i", "l", "e", ":", "/", "/">>

\* the local file system: one regular file and one directory
RegularFile == <<"/", "f">>
Directory == <<"/", "d">>
existsSync(path) == path \in {RegularFile, Directory}
isFile(path) == path = RegularFile

\* FILE_UPLOAD_PARAMS[method] for the methods whose slots hold plain strings
FILE_UPLOAD_PARAMS(method) ==
  CASE method = "sendPhoto" -> <<"photo">>
    [] method = "sendAudio" -> <<"audio", "thumbnail">>
    [] method = "sendDocument" -> <<"document", "thumbnail">>
    [] method = "sendVoice" -> <<"voice">>
    [] method = "setChatPhoto" -> <<"photo">>
    [] OTHER -> <<>>

extractFilePath(chars) ==
  IF StartsWith(chars, FilePrefix) THEN SubSeq(chars, Len(FilePrefix) + 1, Len(chars))
  ELSE chars

isLocalFilePath(value) ==
  /\ value.t = "string"
  /\ LET filePath == extractFilePath(value.v) IN
     StartsWith(filePath, <<"/">>) /\ existsSync(filePath)

\* checkForFileUploads(method, params).files: the paths of the local files found
checkForFileUploads(method, params) ==
  LET slots == FILE_UPLOAD_PARAMS(method)
      found == SelectSeq(slots, LAMBDA name : isLocalFilePath(Get(params, name)))
  IN [k \in 1..Len(found) |-> extractFilePath(Get(params, found[k]).v)]

\* validateFiles(files) returns (TRUE) or throws (FALSE)
validateFiles(files) ==
  \A k \in 1..Len(files) : existsSync(files[k]) /\ isFile(files[k])

\* ------------------------------------------------------------------ retry rules
\* reply envelopes; description is one of the texts the code produces or "upstream"
Envelope(ok, result, code, description, retryAfter) ==
  [ok |-> ok, result |-> result, error_code |-> code, description |-> description,
   retry_after |-> retryAfter]

RECURSIVE Pow2(_)
Pow2(n) == IF n = 0 THEN 1 ELSE 2 * Pow2(n - 1)

Min(a, b) == IF a < b THEN a ELSE b

\* getRetryDelay(attempt, retryAfter?)
getRetryDelay(attempt, retryAfter) ==
  IF retryAfter # Undefined /\ retryAfter # 0
  THEN retryAfter * 1000
  ELSE Min(1000 * Pow2(attempt), 30000)

\* isRetryableError(response)
isRetryableError_ClientErrors(response) ==
  IF response.ok THEN FALSE
  ELSE IF response.error_code # Undefined /\ response.error_code # 0
          /\ response.error_code >= 400 THEN TRUE
  ELSE (response.error_code = Undefined \/ response.error_code = 0)
       /\ response.description = "Network error"

isRetryableError(response) ==
  IF response.ok THEN FALSE
  ELSE IF response.error_code = 429 THEN TRUE
  ELSE IF response.error_code # Undefined /\ response.error_code # 0
          /\ response.error_code >= 500 THEN TRUE
  ELSE (response.error_code = Undefined \/ response.error_code = 0)
       /\ response.description = "Network error"

\* ------------------------------------------------------------------ error categories
UpperCase == <<"A", "B", "C", "D", "E", "F", "G", "H", "I", "J", "K", "L", "M",
               "N", "O", "P", "Q", "R", "S", "T", "U", "V", "W", "X", "Y", "Z">>
LowerCase == <<"a", "b", "c", "d", "e", "f", "g", "h", "i", "j", "k", "l", "m",
               "n", "o", "p", "q", "r", "s", "t", "u", "v", "w", "x", "y", "z">>

\* String.prototype.toLowerCase, over the letters A to Z
toLowerCase(chars) ==
  [k \in 1..Len(chars) |->
     IF \E j \in 1..Len(UpperCase) : UpperCase[j] = chars[k]
     THEN LowerCase[CHOOSE j \in 1..Len(UpperCase) : UpperCase[j] = chars[k]]
     ELSE chars[k]]

\* String.prototype.includes
includes(chars, sub) ==
  \E k \in 0..(Len(chars) - Len(sub)) : SubSeq(chars, k + 1, k + Len(sub)) = sub

TimeoutWord == <<"t", "i", "m", "e", "o", "u", "t">>
CircuitBreakerWords ==
  <<"c", "i", "r", "c", "u", "i", "t", " ", "b", "r", "e", "a", "k", "e", "r">>

\* categorizeError(response) for a response with ok = false; description is
\* Undef or Str(chars), error_code is Undefined or a number
categorizeError_CodeFirst(response) ==
  IF response.error_code # Undefined /\ response.error_code = 429 THEN "RATE_LIMITED"
  ELSE IF response.error_code # Undefined /\ response.error_code >= 500 THEN "SERVER"
  ELSE IF response.error_code # Undefined /\ response.error_code >= 400 THEN "CLIENT"
  ELSE IF response.description.t = "string"
          /\ includes(toLowerCase(response.description.v), TimeoutWord)
  THEN "TIMEOUT"
  ELSE IF response.description.t = "string"
          /\ includes(response.description.v, CircuitBreakerWords)
  THEN "CIRCUIT_OPEN"
  ELSE "NETWORK"

categorizeError(response) ==
  IF response.description.t = "string"
     /\ includes(toLowerCase(response.description.v), TimeoutWord)
  THEN "TIMEOUT"
  ELSE IF response.description.t = "string"
          /\ includes(response.description.v, CircuitBreakerWords)
  THEN "CIRCUIT_OPEN"
  ELSE IF response.error_code = Undefined \/ response.error_code = 0 THEN "NETWORK"
  ELSE IF response.error_code = 429 THEN "RATE_LIMITED"
  ELSE IF response.error_code >= 500 THEN "SERVER"
  ELSE IF response.error_code >= 400 THEN "CLIENT"
  ELSE "NETWORK"

\* ------------------------------------------------------------------ callTelegramAPI, up to the retry loop
\* the shared objects an invocation reads and writes
Shared ==
  [cache |-> cache, breaker |-> breaker, gauge |-> gauge, requests |-> requests,
   lim |-> [chatTimestamps |-> chatTimestamps, lastCleanup |-> lastCleanup]]

Becomes(st) ==
  /\ cache' = st.cache
  /\ breaker' = st.breaker
  /\ gauge' = st.gauge
  /\ requests' = st.requests
  /\ chatTimestamps' = st.lim.chatTimestamps
  /\ lastCleanup' = st.lim.lastCleanup

NoResp == Envelope(FALSE, Undefined, Undefined, "none", Undefined)

\* lines 731-737: the cache probe
CacheStage_Counted(st, method, params, t) ==
  IF isCacheable(method)
  THEN LET r == getCached(st.cache, method, params, t) IN
       [done |-> r.ret # Null,
        st |-> [st EXCEPT !.cache = r.c,
                          !.requests = IF r.ret # Null THEN recordRequest(@, t) ELSE @],
        resp |-> Envelope(TRUE, r.ret, Undefined, "none", Undefined)]
  ELSE [done |-> FALSE, st |-> st, resp |-> NoResp]

CacheStage(st, method, params, t) ==
  IF isCacheable(method)
  THEN LET r == getCached(st.cache, method, params, t) IN
       [done |-> r.ret # Null, st |-> [st EXCEPT !.cache = r.c],
        resp |-> Envelope(TRUE, r.ret, Undefined, "none", Undefined)]
  ELSE [done |-> FALSE, st |-> st, resp |-> NoResp]

\* lines 739-749: the breaker check
BreakerStage_CountsRequest(st, t) ==
  LET r == isOpen(st.breaker, t) IN
  [done |-> r.ret,
   st |-> [st EXCEPT !.breaker = r.b,
                     !.requests = IF r.ret THEN recordRequest(@, t) ELSE @],
   resp |-> Envelope(FALSE, Undefined, 503, "circuit breaker open", Undefined)]

BreakerStage(st, t) ==
  LET r == isOpen(st.breaker, t) IN
  [done |-> r.ret, st |-> [st EXCEPT !.breaker = r.b],
   resp |-> Envelope(FALSE, Undefined, 503, "circuit breaker open", Undefined)]

\* lines 751-766: the global rate limit
GlobalStage(st, opts, limitPerMinute, t) ==
  IF opts.skipRateLimit
  THEN [done |-> FALSE, st |-> st, resp |-> NoResp]
  ELSE LET r == canMakeRequest(st.requests, limitPerMinute, t)
           waitTime == getWaitTime(r.reqs, limitPerMinute, t)
       IN [done |-> ~r.ret, st |-> [st EXCEPT !.requests = r.reqs],
           resp |-> Envelope(FALSE, Undefined, 429, "Rate limit exceeded",
                             CeilSeconds(waitTime))]

\* lines 768-787: the per-chat rate limit
ChatStage(st, method, params, opts, t) ==
  IF ~opts.skipRateLimit /\ method \in MESSAGE_SENDING_METHODS
     /\ Get(params, "chat_id").t # "undefined"
  THEN LET chatId == Get(params, "chat_id")
           r == canSendToChat(getPerChatLimiter(st.lim, t), chatId, t)
           waitTime == getWaitTimeForChat(r.lim, chatId, t)
       IN [done |-> ~r.ret, st |-> [st EXCEPT !.lim = r.lim],
           resp |-> Envelope(FALSE, Undefined, 429, "Per-chat rate limit exceeded",
                             CeilSeconds(waitTime))]
  ELSE [done |-> FALSE, st |-> st, resp |-> NoResp]

\* lines 792-830: undefined values are dropped, local files are checked
UploadStage(method, params) ==
  LET cleanParams == Stringify(params)
      files == checkForFileUploads(method, cleanParams)
      slots == FILE_UPLOAD_PARAMS(method)
      attached(e) == \E k \in 1..Len(slots) : slots[k] = e[1] /\ isLocalFilePath(e[2])
  IN [done |-> files # <<>> /\ ~validateFiles(files),
      resp |-> Envelope(FALSE, Undefined, 400, "File upload error", Undefined),
      finalParams |-> [k \in 1..Len(cleanParams) |->
                         IF attached(cleanParams[k])
                         THEN <<cleanParams[k][1], Str(<<"attach://", cleanParams[k][1]>>)>>
                         ELSE cleanParams[k]]]

\* lines 731-830 in order: which stage answers (or "proceed"), with what, and
\* the shared objects afterwards
Admission(st, method, params, opts, cfg, t) ==
  LET c == CacheStage(st, method, params, t) IN
  IF c.done THEN [via |-> "cache", st |-> c.st, resp |-> c.resp, finalParams |-> params]
  ELSE LET b == BreakerStage(c.st, t) IN
  IF b.done THEN [via |-> "circuit", st |-> b.st, resp |-> b.resp, finalParams |-> params]
  ELSE LET g == GlobalStage(b.st, opts, cfg.rateLimitPerMinute, t) IN
  IF g.done THEN [via |-> "global", st |-> g.st, resp |-> g.resp, finalParams |-> params]
  ELSE LET p == ChatStage(g.st, method, params, opts, t) IN
  IF p.done THEN [via |-> "per_chat", st |-> p.st, resp |-> p.resp, finalParams |-> params]
  ELSE LET u == UploadStage(method, params) IN
  IF u.done THEN [via |-> "upload", st |-> p.st, resp |-> u.resp, finalParams |-> params]
  ELSE [via |-> "proceed", st |-> p.st, resp |-> NoResp, finalParams |-> u.finalParams]

\* ------------------------------------------------------------------ health
\* getCircuitBreakerStatus(): the status returned and the breaker afterwards
getCircuitBreakerStatus(b, t) ==
  LET r == isOpen(b, t) IN
  [state |-> r.b.state, consecutiveFailures |-> r.b.consecutiveFailures, b |-> r.b]

\* getHealthStatus(): the status, the two checks it rests on, and the shared
\* state after getCircuitBreakerStatus() and getRateLimiterStatus()
getHealthStatus_IgnoresLimiter(st, cfg, t) ==
  LET circuitBreaker == getCircuitBreakerStatus(st.breaker, t)
      limiter == canMakeRequest(st.requests, cfg.rateLimitPerMinute, t)
  IN [status |-> IF circuitBreaker.state = "open" THEN "unhealthy"
                 ELSE IF circuitBreaker.state = "half-open" THEN "degraded"
                 ELSE "healthy",
      state |-> circuitBreaker.state,
      limited |-> ~limiter.ret,
      st |-> [st EXCEPT !.breaker = circuitBreaker.b,
                        !.requests = limiter.reqs,
                        !.lim = maybeCleanup(getPerChatLimiter(@, t), t)]]

getHealthStatus(st, cfg, t) ==
  LET circuitBreaker == getCircuitBreakerStatus(st.breaker, t)
      limiter == canMakeRequest(st.requests, cfg.rateLimitPerMinute, t)
  IN [status |-> IF circuitBreaker.state = "open" THEN "unhealthy"
                 ELSE IF circuitBreaker.state = "half-open" \/ ~limiter.ret THEN "degraded"
                 ELSE "healthy",
      state |-> circuitBreaker.state,
      limited |-> ~limiter.ret,
      st |-> [st EXCEPT !.breaker = circuitBreaker.b,
                        !.requests = limiter.reqs,
                        !.lim = maybeCleanup(getPerChatLimiter(@, t), t)]]

\* isReady(): the value returned and the breaker afterwards
isReady(b, t) ==
  LET circuitBreaker == getCircuitBreakerStatus(b, t) IN
  [ret |-> circuitBreaker.state # "open", b |-> circuitBreaker.b]

\* ------------------------------------------------------------------ initial state
NSlots == 2            \* invocations of callTelegramAPI in progress at once
Slots == 1..NSlots
Idle == [pc |-> "idle"]

requestTimeoutDefault == 30000
rateLimitMin == 1
rateLimitMax == 60

Config(limitPerMinute, maxRetries) ==
  [rateLimitPerMinute |-> limitPerMinute, maxRetries |-> maxRetries,
   requestTimeout |-> requestTimeoutDefault]

\* getConfig() of the runs: the request budget at its maximum, one retry
Retries == 1
Configs == {Config(rateLimitMax, Retries)}

\* the state after the modules are loaded, the per-chat limiter is lim and
\* the webhook server has queued the updates of queue
InitQueue(configs, lim, queue) ==
  /\ now = T0
  /\ breaker = NewCircuitBreaker
  /\ gauge = 0
  /\ requests = <<>>
  /\ chatTimestamps = lim.chatTimestamps
  /\ lastCleanup = lim.lastCleanup
  /\ cache = EmptyMap
  /\ config \in configs
  /\ inv = [i \in Slots |-> Idle]
  /\ last = NoOp
  /\ streak = 0
  /\ reopenedAt = 0
  /\ stored = NoStore
  /\ pendingUpdates = queue
  /\ unswept = lim.chatTimestamps

InitFrom(configs, lim) == InitQueue(configs, lim, <<>>)

InitWith(configs) == InitFrom(configs, [chatTimestamps |-> EmptyMap, lastCleanup |-> Undefined])

Init == InitWith(Configs)

\* the clock advances by d ms
Tick(d) ==
  /\ now + d <= MaxTime
  /\ now' = now + d
  /\ last' = NoOp
  /\ UNCHANGED <<breaker, gauge, requests, chatTimestamps, lastCleanup, cache, config, inv,
                 streak, reopenedAt, stored, pendingUpdates, unswept>>

\* ------------------------------------------------------------------ callTelegramAPI, the retry loop
\* options.maxRetries ?? config.maxRetries
MaxRetriesOf(opts, cfg) ==
  IF opts.maxRetries # Undefined THEN opts.maxRetries ELSE cfg.maxRetries

\* what fetch() and response.json() can produce for one attempt
Json(data) == [kind |-> "json", data |-> data, abort |-> FALSE]
Throw(abort) == [kind |-> "throw", data |-> NoResp, abort |-> abort]

\* lines 874-894: the success path
OnSuccess_RecordsEveryMethod(st, method, finalParams, data, t) ==
  LET chatId == Get(finalParams, "chat_id") IN
  [st EXCEPT
     !.breaker = recordSuccess(@),
     !.lim = IF chatId.t # "undefined"
             THEN recordChatMessage(getPerChatLimiter(@, t), chatId, t) ELSE @,
     !.cache = IF isCacheable(method) /\ data.result # Undefined
               THEN setCache(@, method, finalParams, data.result, CACHE_TTL(method), t)
               ELSE @]

OnSuccess(st, method, finalParams, data, t) ==
  LET chatId == Get(finalParams, "chat_id") IN
  [st EXCEPT
     !.breaker = recordSuccess(@),
     !.lim = IF method \in MESSAGE_SENDING_METHODS /\ chatId.t # "undefined"
             THEN recordChatMessage(getPerChatLimiter(@, t), chatId, t) ELSE @,
     !.cache = IF isCacheable(method) /\ data.result # Undefined
               THEN setCache(@, method, finalParams, data.result, CACHE_TTL(method), t)
               ELSE @]

\* lines 912-924 and 954-960: the final failure
OnFailure(st, errorCode, t) ==
  [st EXCEPT !.breaker = recordFailure(@, errorCode, t),
             !.gauge = recordFailureGauge(st.breaker, errorCode, @)]

\* lines 925-937: the envelope made from a thrown fetch error
Thrown(abort) ==
  Envelope(FALSE, Undefined, Undefined,
           IF abort THEN "Request timeout" ELSE "Network error", Undefined)

\* lines 866-961: what one attempt's outcome leads to
Completion_ReportsEveryAttempt(st, method, finalParams, attempt, maxRetries, reply, t) ==
  LET data == IF reply.kind = "json" THEN reply.data ELSE Thrown(reply.abort) IN
  IF reply.kind = "json" /\ data.ok
  THEN [kind |-> "return", via |-> "success", reported |-> "success", resp |-> data,
        delay |-> 0, st |-> OnSuccess(st, method, finalParams, data, t)]
  ELSE IF (reply.kind = "throw" \/ isRetryableError(data)) /\ attempt < maxRetries
  THEN [kind |-> "retry", via |-> "retry", reported |-> "failure", resp |-> data,
        delay |-> getRetryDelay(attempt,
                                IF reply.kind = "json" THEN data.retry_after ELSE Undefined),
        st |-> OnFailure(st, data.error_code, t)]
  ELSE [kind |-> "return", via |-> "failure", reported |-> "failure", resp |-> data,
        delay |-> 0, st |-> OnFailure(st, data.error_code, t)]

Completion_RetriesOnceMore(st, method, finalParams, attempt, maxRetries, reply, t) ==
  LET data == IF reply.kind = "json" THEN reply.data ELSE Thrown(reply.abort) IN
  IF reply.kind = "json" /\ data.ok
  THEN [kind |-> "return", via |-> "success", reported |-> "success", resp |-> data,
        delay |-> 0, st |-> OnSuccess(st, method, finalParams, data, t)]
  ELSE IF (reply.kind = "throw" \/ isRetryableError(data)) /\ attempt <= maxRetries
  THEN [kind |-> "retry", via |-> "retry", reported |-> "none", resp |-> data,
        delay |-> getRetryDelay(attempt,
                                IF reply.kind = "json" THEN data.retry_after ELSE Undefined),
        st |-> st]
  ELSE [kind |-> "return", via |-> "failure", reported |-> "failure", resp |-> data,
        delay |-> 0, st |-> OnFailure(st, data.error_code, t)]

Completion(st, method, finalParams, attempt, maxRetries, reply, t) ==
  LET data == IF reply.kind = "json" THEN reply.data ELSE Thrown(reply.abort) IN
  IF reply.kind = "json" /\ data.ok
  THEN [kind |-> "return", via |-> "success", reported |-> "success", resp |-> data,
        delay |-> 0, st |-> OnSuccess(st, method, finalParams, data, t)]
  ELSE IF (reply.kind = "throw" \/ isRetryableError(data)) /\ attempt < maxRetries
  THEN [kind |-> "retry", via |-> "retry", reported |-> "none", resp |-> data,
        delay |-> getRetryDelay(attempt,
                                IF reply.kind = "json" THEN data.retry_after ELSE Undefined),
        st |-> st]
  ELSE [kind |-> "return", via |-> "failure", reported |-> "failure", resp |-> data,
        delay |-> 0, st |-> OnFailure(st, data.error_code, t)]

\* the idle slot an invocation takes: the lowest one
FreeSlot(i) == inv[i].pc = "idle" /\ \A j \in Slots : j < i => inv[j].pc # "idle"

\* callTelegramAPI(method, params, opts) from its entry to its first await
\* (the first fetch) or to its return
Call(i, method, params, opts) ==
  /\ FreeSlot(i)
  /\ LET a == Admission(Shared, method, params, opts, config, now) IN
     IF a.via # "proceed"
     THEN /\ Becomes(a.st)
          /\ inv' = inv
          /\ last' = [op |-> "return", via |-> a.via, resp |-> a.resp, http |-> 0,
                      recs |-> 0, reports |-> 0, at |-> now,
                      key |-> generateKey(method, params),
                      skip |-> opts.skipRateLimit]
     ELSE /\ Becomes([a.st EXCEPT !.requests = recordRequest(@, now)])
          /\ inv' = [inv EXCEPT ![i] =
                       [pc |-> "fetch", method |-> method, params |-> a.finalParams,
                        opts |-> opts, attempt |-> 0, http |-> 1, recs |-> 1,
                        reports |-> 0, sentAt |-> now, wakeAt |-> now]]
          /\ last' = [op |-> "attempt", first |-> TRUE, at |-> now, slot |-> i]
  /\ UNCHANGED <<now, config, streak, reopenedAt, stored, pendingUpdates, unswept>>

\* the outcome of the fetch an invocation awaits arrives: lines 866-961
Respond(i, reply) ==
  /\ inv[i].pc = "fetch"
  /\ IF reply.kind = "throw" /\ reply.abort
     THEN now - inv[i].sentAt >= config.requestTimeout
     ELSE now - inv[i].sentAt <= config.requestTimeout
  /\ LET r == inv[i]
         c == Completion(Shared, r.method, r.params, r.attempt,
                         MaxRetriesOf(r.opts, config), reply, now)
         n == r.reports + (IF c.reported = "none" THEN 0 ELSE 1)
     IN
     /\ c.st.breaker.consecutiveFailures <= MaxFailures
     /\ Becomes(c.st)
     /\ streak' = IF c.reported = "success" THEN 0
                  ELSE IF c.reported = "failure" /\ Qualifying(c.resp.error_code)
                       THEN streak + 1 ELSE streak
     /\ reopenedAt' = IF /\ c.reported = "failure" /\ Qualifying(c.resp.error_code)
                         /\ breaker.state = "half-open"
                      THEN now ELSE reopenedAt
     /\ IF c.kind = "retry"
        THEN /\ inv' = [inv EXCEPT ![i] = [r EXCEPT !.pc = "sleep", !.reports = n,
                                                     !.wakeAt = now + c.delay]]
             /\ last' = [op |-> "retry", attempt |-> r.attempt, resp |-> c.resp,
                         delay |-> c.delay, at |-> now]
        ELSE /\ inv' = [inv EXCEPT ![i] = Idle]
             /\ last' = [op |-> "return", via |-> c.via, resp |-> c.resp, http |-> r.http,
                         recs |-> r.recs, reports |-> n, at |-> now]
  /\ UNCHANGED <<now, config, stored, pendingUpdates, unswept>>

\* sleep(delay) is over: the next iteration of the loop records and fetches
Wake_NoRecord(i) ==
  /\ inv[i].pc = "sleep"
  /\ now >= inv[i].wakeAt
  /\ inv' = [inv EXCEPT ![i] = [@ EXCEPT !.pc = "fetch", !.attempt = @ + 1,
                                          !.http = @ + 1, !.sentAt = now]]
  /\ last' = [op |-> "attempt", first |-> FALSE, at |-> now, slot |-> i]
  /\ UNCHANGED <<now, breaker, gauge, requests, chatTimestamps, lastCleanup, cache, config,
                 streak, reopenedAt, stored, pendingUpdates, unswept>>

Wake_RecordsTwice(i) ==
  /\ inv[i].pc = "sleep"
  /\ now >= inv[i].wakeAt
  /\ requests' = recordRequest(recordRequest(requests, now), now)
  /\ inv' = [inv EXCEPT ![i] = [@ EXCEPT !.pc = "fetch", !.attempt = @ + 1,
                                          !.http = @ + 1, !.recs = @ + 2,
                                          !.sentAt = now]]
  /\ last' = [op |-> "attempt", first |-> FALSE, at |-> now, slot |-> i]
  /\ UNCHANGED <<now, breaker, gauge, chatTimestamps, lastCleanup, cache, config,
                 streak, reopenedAt, stored, pendingUpdates, unswept>>

Wake_SleepsOn(i) ==
  /\ inv[i].pc = "sleep"
  /\ now >= inv[i].wakeAt
  /\ last' = NoOp
  /\ UNCHANGED <<now, breaker, gauge, requests, chatTimestamps, lastCleanup, cache, config,
                 inv, streak, reopenedAt, stored, pendingUpdates, unswept>>

Wake(i) ==
  /\ inv[i].pc = "sleep"
  /\ now >= inv[i].wakeAt
  /\ requests' = recordRequest(requests, now)
  /\ inv' = [inv EXCEPT ![i] = [@ EXCEPT !.pc = "fetch", !.attempt = @ + 1,
                                          !.http = @ + 1, !.recs = @ + 1,
                                          !.sentAt = now]]
  /\ last' = [op |-> "attempt", first |-> FALSE, at |-> now, slot |-> i]
  /\ UNCHANGED <<now, breaker, gauge, chatTimestamps, lastCleanup, cache, config,
                 streak, reopenedAt, stored, pendingUpdates, unswept>>

\* ------------------------------------------------------------------ tool calls
\* the fields the schema of a method constrains, <<>> for a method with no
\* schema: chat_id is an integer or a non-empty string, text a string of 1 to
\* 4096 characters
schemaFactories(method) ==
  CASE method = "sendMessage" -> <<"chat_id", "text">>
    [] method = "getChat" -> <<"chat_id">>
    [] OTHER -> <<>>

\* validateParams(method, params): error is "Validation failed: " followed by
\* the paths of the fields the schema rejects
validateParams_NoSchema(method, params) ==
  [success |-> TRUE, data |-> params, error |-> <<>>]

validateParams(method, params) ==
  LET accepts(field, value) ==
        IF field = "chat_id"
        THEN value.t = "number" \/ (value.t = "string" /\ Len(value.v) >= 1)
        ELSE value.t = "string" /\ Len(value.v) >= 1 /\ Len(value.v) <= 4096
      rejected == SelectSeq(schemaFactories(method),
                            LAMBDA field : ~accepts(field, Get(params, field)))
  IN IF rejected = <<>>
     THEN [success |-> TRUE, data |-> params, error |-> <<>>]
     ELSE [success |-> FALSE, data |-> params,
           error |-> <<"Validation failed: ">> \o rejected]

\* toolEntry.required of the registry
required(toolName) ==
  CASE toolName = "sendMessage" -> <<"chat_id", "text">>
    [] toolName = "getChat" -> <<"chat_id">>
    [] OTHER -> <<"chat_id", "latitude", "longitude", "title", "address">>

\* a tool call returns before callTelegramAPI is called
ToolError(via, field, text, name, toolArgs) ==
  /\ last' = [op |-> "return", via |-> via, resp |-> [error |-> TRUE, field |-> field,
                                                      text |-> text],
              http |-> 0, recs |-> 0, reports |-> 0, at |-> now,
              key |-> <<name, toolArgs>>, skip |-> FALSE]
  /\ UNCHANGED <<now, breaker, gauge, requests, chatTimestamps, lastCleanup, cache, config,
                 inv, streak, reopenedAt, stored, pendingUpdates, unswept>>

\* the CallToolRequestSchema handler of the server with one tool per method,
\* up to the first await of callTelegramAPI
CallTool(i, name, toolArgs) ==
  LET validation == validateParams(name, toolArgs) IN
  IF ~validation.success
  THEN ToolError("validation", "description", validation.error, name, toolArgs)
  ELSE Call(i, name, validation.data, [skipRateLimit |-> FALSE, maxRetries |-> Undefined])

\* handleTelegramCall({tool, params}) of the server with the two meta tools
handleTelegramCall(i, toolName, params) ==
  LET missingParams == SelectSeq(required(toolName),
                                 LAMBDA p : Get(params, p).t = "undefined")
      validation == validateParams(toolName, params)
  IN IF missingParams # <<>>
     THEN ToolError("missing", "message",
                    <<"Missing required parameters: ">> \o missingParams, toolName, params)
     ELSE IF ~validation.success
     THEN ToolError("validation", "message", validation.error, toolName, params)
     ELSE Call(i, toolName, validation.data,
               [skipRateLimit |-> FALSE, maxRetries |-> Undefined])

\* ------------------------------------------------------------------ the pipeline
Opts(skip) == [skipRateLimit |-> skip, maxRetries |-> Undefined]

\* replies of the upstream, and the two ways fetch throws
ReplyOk == Json(Envelope(TRUE, 1, Undefined, "none", Undefined))
Reply400 == Json(Envelope(FALSE, Undefined, 400, "upstream", Undefined))
Reply429 == Json(Envelope(FALSE, Undefined, 429, "upstream", 2))
Reply500 == Json(Envelope(FALSE, Undefined, 500, "upstream", Undefined))
NetworkError == Throw(FALSE)
Timeout == Throw(TRUE)

\* any invocations, up to NSlots at once, against an upstream that answers anything
MaxRequests == 3     \* instants the global limiter holds at once
Calls == {<<"getMe", PEmpty>>, <<"getUpdates", PEmpty>>}
CallOpts == {Opts(FALSE)}
Replies == {ReplyOk, Reply400, NetworkError}
Steps == {30000}

Next ==
  \/ \E i \in Slots, c \in Calls, o \in CallOpts :
       Call(i, c[1], c[2], o) /\ Len(requests') <= MaxRequests
  \/ \E i \in Slots, reply \in Replies : Respond(i, reply)
  \/ \E i \in Slots : Wake(i) /\ Len(requests') <= MaxRequests
  \/ \E d \in Steps : Tick(d)

Spec == Init /\ [][Next]_vars

\* an outage: retries are off (MAX_RETRIES = 0) and the transport answers or
\* raises a network error
MaxOutageRequests == 8     \* instants the global limiter holds at once
MaxOutageTime == 130000    \* the outage runs end at this time
OutageConfigs == {Config(rateLimitMax, 0)}
OutageCalls == {<<"getMe", PEmpty>>, <<"getUpdates", PEmpty>>}
OutageReplies == {ReplyOk, NetworkError}

NextOutage ==
  \/ \E i \in Slots, c \in OutageCalls, o \in CallOpts :
       Call(i, c[1], c[2], o) /\ Len(requests') <= MaxOutageRequests
  \/ \E i \in Slots, reply \in OutageReplies : Respond(i, reply)
  \/ \E d \in Steps : Tick(d) /\ now' <= MaxOutageTime

SpecOutage == InitWith(OutageConfigs) /\ [][NextOutage]_vars

\* a caller that repeats a cacheable call, its params written in either order
MaxRepeatRequests == 3     \* instants the global limiter holds at once
RepeatCalls == {<<"getWebhookInfo", PAB>>, <<"getWebhookInfo", PBA>>}

NextRepeat ==
  \/ \E i \in Slots, c \in RepeatCalls, o \in CallOpts :
       Call(i, c[1], c[2], o) /\ Len(requests') <= MaxRepeatRequests
  \/ \E i \in Slots, reply \in OutageReplies : Respond(i, reply)
  \/ \E d \in Steps : Tick(d)

SpecRepeat == InitWith(OutageConfigs) /\ [][NextRepeat]_vars

\* a small budget: RATE_LIMIT_PER_MINUTE = 2, one retry
Budget == 2
MaxBudgetRequests == 4     \* instants the global limiter holds at once
BudgetConfigs == {Config(Budget, Retries)}
BudgetCalls == {<<"getUpdates", PEmpty>>}

NextBudget ==
  \/ \E i \in Slots, c \in BudgetCalls, o \in CallOpts :
       Call(i, c[1], c[2], o) /\ Len(requests') <= MaxBudgetRequests
  \/ \E i \in Slots, reply \in OutageReplies : Respond(i, reply)
  \/ \E i \in Slots : Wake(i) /\ Len(requests') <= MaxBudgetRequests
  \/ \E d \in Steps : Tick(d)

SpecBudget == InitWith(BudgetConfigs) /\ [][NextBudget]_vars

\* sends to one private chat, with and without skipRateLimit, half a second
\* or a second apart
MaxChatRequests == 3       \* instants the global limiter holds at once
MaxChatTime == 102000      \* these runs end at this time
ChatConfigs == {Config(Budget, 0)}
ChatCalls == {<<"sendMessage", PChat(Num(5))>>}
ChatOpts == {Opts(FALSE), Opts(TRUE)}
ChatSteps == {500, 1000}

NextChat ==
  \/ \E i \in Slots, c \in ChatCalls, o \in ChatOpts :
       Call(i, c[1], c[2], o) /\ Len(requests') <= MaxChatRequests
  \/ \E i \in Slots, reply \in OutageReplies : Respond(i, reply)
  \/ \E d \in ChatSteps : Tick(d) /\ now' <= MaxChatTime

SpecChat == InitWith(ChatConfigs) /\ [][NextChat]_vars

\* sends to the private chats 111 and 222, a send with no chat_id and a
\* getChat, against an upstream that answers ok; the clock is read at T0, half
\* a second and a second later
MaxPairRequests == 2       \* instants the global limiter holds at once

NextPair ==
  \/ \E i \in Slots, c \in {<<"sendMessage", PChat(Num(111))>>,
                             <<"sendMessage", PChat(Num(222))>>,
                             <<"sendMessage", PEmpty>>,
                             <<"getChat", PChat(Num(111))>>} :
       Call(i, c[1], c[2], Opts(FALSE)) /\ Len(requests') <= MaxPairRequests
  \/ \E i \in Slots : Respond(i, ReplyOk)
  \/ \E t \in {T0 + 500, T0 + 1000} : t > now /\ Tick(t - now)

SpecPair == InitWith(OutageConfigs) /\ [][NextPair]_vars

\* one invocation at a time, with the configured retries or with
\* options.maxRetries = DeepRetries, against an upstream that fails in every
\* retriable way; the clock advances to the end of a sleep or by the request
\* timeout
DeepRetries == 6           \* options.maxRetries of the long invocations
MaxRetryRequests == 7      \* instants the global limiter holds at once
Reply429Zero == Json(Envelope(FALSE, Undefined, 429, "upstream", 0))

NextRetry ==
  \/ \E i \in Slots, m \in {Undefined, DeepRetries} :
       /\ \A j \in Slots : inv[j].pc = "idle"
       /\ Call(i, "getUpdates", PEmpty, [skipRateLimit |-> FALSE, maxRetries |-> m])
       /\ Len(requests') <= MaxRetryRequests
  \/ \E i \in Slots, reply \in {ReplyOk, Reply400, Reply429, Reply429Zero, Reply500,
                                  NetworkError, Timeout} : Respond(i, reply)
  \/ \E i \in Slots : Wake(i) /\ Len(requests') <= MaxRetryRequests
  \/ \E i \in Slots : inv[i].pc = "sleep" /\ inv[i].wakeAt > now /\ Tick(inv[i].wakeAt - now)
  \/ \E i \in Slots : inv[i].pc = "fetch" /\ Tick(config.requestTimeout)

SpecRetry == Init /\ [][NextRetry]_vars

\* tool calls through both servers, with params the schemas accept and params
\* they reject, against an upstream that answers ok
MaxToolRequests == 2       \* instants the global limiter holds at once

NextTools ==
  \/ \E i \in Slots, front \in {"tool", "telegram_call"},
        c \in {<<"sendMessage", <<<<"chat_id", Num(5)>>, <<"text", Str(<<"h", "i">>)>>>> >>,
               <<"sendMessage", PChat(Num(5))>>,
               <<"sendMessage", <<<<"chat_id", Str(<<>>)>>, <<"text", Str(<<"h", "i">>)>>>> >>,
               <<"sendMessage", <<<<"chat_id", Num(5)>>, <<"text", Num(1)>>>> >>,
               <<"getChat", PChat(Num(5))>>,
               <<"getChat", PChat(Str(<<>>))>>,
               <<"sendVenue", PChat(Num(5))>>} :
       /\ IF front = "tool" THEN CallTool(i, c[1], c[2])
                            ELSE handleTelegramCall(i, c[1], c[2])
       /\ Len(requests') <= MaxToolRequests
  \/ \E i \in Slots : Respond(i, ReplyOk)
  \/ \E t \in {T0 + 1000} : t > now /\ Tick(t - now)

SpecTools == InitWith(OutageConfigs) /\ [][NextTools]_vars

\* sendPhoto with a photo given as a file:// URL or an absolute path (of the
\* regular file, of the directory, of nothing), a file id or a number, against
\* an upstream that answers ok or 400
MaxUploadRequests == 2     \* instants the global limiter holds at once
NextUpload ==
  \/ \E i \in Slots,
        photo \in {Str(FilePrefix \o RegularFile), Str(FilePrefix \o Directory),
                   Str(FilePrefix \o <<"/", "x">>), Str(FilePrefix \o <<"f">>),
                   Str(RegularFile), Str(Directory), Str(<<"/", "x">>),
                   Str(<<"A", "g", "A", "C">>), Num(1)} :
       /\ Call(i, "sendPhoto", <<<<"chat_id", Num(5)>>, <<"photo", photo>>>>, Opts(FALSE))
       /\ Len(requests') <= MaxUploadRequests
  \/ \E i \in Slots, reply \in {ReplyOk, Reply400} : Respond(i, reply)
  \/ \E t \in {T0 + 1000} : t > now /\ Tick(t - now)

SpecUpload == InitWith(OutageConfigs) /\ [][NextUpload]_vars

\* one invocation at a time, with and without skipRateLimit, retries off and
\* a budget of StreakBudget requests a minute: a getUpdates, a send to the chat
\* 5 and a sendPhoto of a directory, against an upstream that answers ok or
\* fails with 400, 429, 500 or a network error
StreakBudget == 5          \* RATE_LIMIT_PER_MINUTE of these runs
MaxStreakRequests == 7     \* instants the global limiter holds at once

NextStreak ==
  \/ \E i \in Slots, o \in ChatOpts,
        c \in {<<"getUpdates", PEmpty>>, <<"sendMessage", PChat(Num(5))>>,
               <<"sendPhoto", <<<<"photo", Str(FilePrefix \o Directory)>>>> >>} :
       /\ \A j \in Slots : inv[j].pc = "idle"
       /\ Call(i, c[1], c[2], o)
       /\ Len(requests') <= MaxStreakRequests
  \/ \E i \in Slots, reply \in {ReplyOk, Reply400, Reply429, Reply500, NetworkError} :
       Respond(i, reply)

SpecStreak == InitWith({Config(StreakBudget, 0)}) /\ [][NextStreak]_vars

\* invocations against an upstream that answers or fails in any way, with
\* RATE_LIMIT_PER_MINUTE at its minimum; every fetch ends and every sleep is
\* waited out.  No invocation starts after LiveHorizon, which leaves the
\* clock room for the sleeps of the invocations in flight.
LiveHorizon == MaxTime - NSlots * Retries * (2000 + getRetryDelay(Retries, Undefined))
LiveReplies == {ReplyOk, Reply400, Reply429, Reply429Zero, Reply500, NetworkError, Timeout}

NextLive ==
  \/ \E i \in Slots, c \in Calls : now <= LiveHorizon /\ Call(i, c[1], c[2], Opts(FALSE))
  \/ \E i \in Slots, reply \in LiveReplies : Respond(i, reply)
  \/ \E i \in Slots : Wake(i)
  \/ \E i \in Slots : inv[i].pc = "sleep" /\ inv[i].wakeAt > now /\ Tick(inv[i].wakeAt - now)
  \/ \E i \in Slots : /\ inv[i].pc = "fetch" /\ now + config.requestTimeout <= LiveHorizon
                       /\ Tick(config.requestTimeout)

\* fetch settles (a reply, a network error, or the abort at the timeout) and
\* the timer of sleep fires
SpecLive ==
  /\ InitWith({Config(rateLimitMin, Retries)})
  /\ [][NextLive]_vars
  /\ \A i \in Slots :
       /\ WF_vars(\E reply \in LiveReplies : Respond(i, reply))
       /\ WF_vars(inv[i].pc = "sleep" /\ inv[i].wakeAt > now /\ Tick(inv[i].wakeAt - now))
       /\ WF_vars(Wake(i))

\* ------------------------------------------------------------------ the breaker alone
\* the three methods of CircuitBreaker called directly, in any order

BreakerSteps == {15000}

CallIsOpen ==
  LET r == isOpen(breaker, now) IN
  /\ breaker' = r.b
  /\ last' = [op |-> "isOpen", ret |-> r.ret, at |-> now, pre |-> breaker]
  /\ UNCHANGED <<now, gauge, requests, chatTimestamps, lastCleanup, cache, config, inv,
                 streak, reopenedAt, stored, pendingUpdates, unswept>>

CallRecordSuccess ==
  /\ breaker' = recordSuccess(breaker)
  /\ last' = [op |-> "recordSuccess", at |-> now, pre |-> breaker]
  /\ streak' = 0
  /\ UNCHANGED <<now, gauge, requests, chatTimestamps, lastCleanup, cache, config, inv,
                 reopenedAt, stored, pendingUpdates, unswept>>

CallRecordFailure(errorCode) ==
  /\ breaker.consecutiveFailures < MaxFailures
  /\ breaker' = recordFailure(breaker, errorCode, now)
  /\ gauge' = recordFailureGauge(breaker, errorCode, gauge)
  /\ last' = [op |-> "recordFailure", arg |-> errorCode, at |-> now, pre |-> breaker]
  /\ streak' = IF Qualifying(errorCode) THEN streak + 1 ELSE streak
  /\ reopenedAt' = IF Qualifying(errorCode) /\ breaker.state = "half-open" THEN now
                   ELSE reopenedAt
  /\ UNCHANGED <<now, requests, chatTimestamps, lastCleanup, cache, config, inv, stored,
            pendingUpdates, unswept>>

NextBreaker ==
  \/ CallIsOpen
  \/ CallRecordSuccess
  \/ \E errorCode \in ErrorCodes \cup {Undefined} : CallRecordFailure(errorCode)
  \/ \E d \in BreakerSteps : Tick(d)

SpecBreaker == Init /\ [][NextBreaker]_vars

\* ------------------------------------------------------------------ the cache alone
\* the exported cache functions called directly, in any order
MaxEntries == 2      \* entries the cache holds at once in the cache-only runs

CacheMethods == {"getWebhookInfo", "sendMessage"}
CacheCalls == {<<"getWebhookInfo", PAB>>, <<"getWebhookInfo", PBA>>, <<"sendMessage", PAB>>}
CacheData == {1, 2}
CacheTtls == {Undefined, 0, 30000}
CacheSteps == {30000}

\* `stored` follows one setCache call at a time, until that method is cleared;
\* `over` records a later setCache for the same method and params object
CallSetCache(method, params, data, ttlMs) ==
  LET key == generateKey(method, params)
      ttl == IF ttlMs # Undefined THEN ttlMs ELSE CACHE_TTL(method)
      this == [method |-> method, params |-> params, data |-> data, at |-> now,
               ttl |-> ttl, over |-> FALSE]
      replaces == /\ ttl # Undefined /\ ttl # 0
                  /\ stored.method = method /\ SameObject(stored.params, params)
  IN
  /\ key \in DOMAIN cache \/ Cardinality(DOMAIN cache) < MaxEntries
  /\ cache' = setCache(cache, method, params, data, ttlMs, now)
  /\ stored' \in (IF ttl = Undefined THEN {} ELSE {this})
                 \cup {IF replaces THEN [stored EXCEPT !.over = TRUE] ELSE stored}
  /\ last' = [op |-> "setCache", method |-> method, at |-> now]
  /\ UNCHANGED <<now, breaker, gauge, requests, chatTimestamps, lastCleanup, config, inv, streak,
                 reopenedAt, pendingUpdates, unswept>>

CallGetCached(method, params) ==
  LET r == getCached(cache, method, params, now) IN
  /\ cache' = r.c
  /\ last' = [op |-> "getCached", method |-> method, params |-> params, ret |-> r.ret,
              at |-> now]
  /\ UNCHANGED <<now, breaker, gauge, requests, chatTimestamps, lastCleanup, config, inv,
                 streak, reopenedAt, stored, pendingUpdates, unswept>>

CallClearCache ==
  /\ cache' = clearCache(cache)
  /\ stored' = NoStore
  /\ last' = [op |-> "clearCache", at |-> now]
  /\ UNCHANGED <<now, breaker, gauge, requests, chatTimestamps, lastCleanup, config, inv, streak,
                 reopenedAt, pendingUpdates, unswept>>

CallClearCacheForMethod(method) ==
  /\ cache' = clearCacheForMethod(cache, method)
  /\ stored' = IF stored.method = method THEN NoStore ELSE stored
  /\ last' = [op |-> "clearCacheForMethod", method |-> method, at |-> now,
              removed |-> Cardinality(DOMAIN cache) - Cardinality(DOMAIN cache')]
  /\ UNCHANGED <<now, breaker, gauge, requests, chatTimestamps, lastCleanup, config, inv, streak,
                 reopenedAt, pendingUpdates, unswept>>

NextCache ==
  \/ \E call \in CacheCalls, data \in CacheData, ttlMs \in CacheTtls :
        CallSetCache(call[1], call[2], data, ttlMs)
  \/ \E call \in CacheCalls : CallGetCached(call[1], call[2])
  \/ CallClearCache
  \/ \E method \in CacheMethods : CallClearCacheForMethod(method)
  \/ \E d \in CacheSteps : Tick(d)

SpecCache == Init /\ [][NextCache]_vars

\* ------------------------------------------------------------------ the per-chat limiter alone
\* the methods of PerChatRateLimiter called directly, in any order
GroupBacklog == 18         \* instants of time T0 the chat -7 holds at the start
MaxGroupInstants == 20     \* instants recorded for the chat -7 in all
MaxOtherInstants == 1      \* instants recorded for all the other chats in all

LimiterChats == {Num(0 - 7), Str(<<"-", "7">>), Str(<<"1", "2", "a">>), Num(111), Num(222)}
\* the clock is read at these instants: a second and a minute after T0, and
\* one ms before the minute
LimiterInstants == {T0, T0 + 1000, T0 + 59999, T0 + 60000}

CallCanSendToChat(chatId) ==
  LET r == canSendToChat(Limiter, chatId, now) IN
  /\ chatTimestamps' = r.lim.chatTimestamps
  /\ lastCleanup' = r.lim.lastCleanup
  /\ last' = [op |-> "canSendToChat", chatId |-> chatId, ret |-> r.ret, at |-> now,
              pre |-> TimestampsOf(Limiter, chatId)]
  /\ UNCHANGED <<now, breaker, gauge, requests, cache, config, inv, streak, reopenedAt,
                 stored, pendingUpdates, unswept>>

CallGetWaitTimeForChat(chatId) ==
  LET lim == maybeCleanup(Limiter, now) IN
  /\ chatTimestamps' = lim.chatTimestamps
  /\ lastCleanup' = lim.lastCleanup
  /\ last' = [op |-> "getWaitTimeForChat", chatId |-> chatId,
              ret |-> getWaitTimeForChat(Limiter, chatId, now), at |-> now,
              pre |-> TimestampsOf(Limiter, chatId)]
  /\ UNCHANGED <<now, breaker, gauge, requests, cache, config, inv, streak, reopenedAt,
                 stored, pendingUpdates, unswept>>

CallRecordChatMessage(chatId) ==
  LET lim == recordChatMessage(Limiter, chatId, now)
      all == recordChatMessage([chatTimestamps |-> unswept, lastCleanup |-> now],
                               chatId, now)
  IN
  /\ Len(TimestampsOf(all, Num(0 - 7))) <= MaxGroupInstants
  /\ Len(TimestampsOf(all, Str(<<"1", "2", "a">>))) + Len(TimestampsOf(all, Num(111)))
       + Len(TimestampsOf(all, Num(222))) <= MaxOtherInstants
  /\ chatTimestamps' = lim.chatTimestamps
  /\ lastCleanup' = lim.lastCleanup
  /\ unswept' = all.chatTimestamps
  /\ last' = [op |-> "recordChatMessage", chatId |-> chatId, at |-> now]
  /\ UNCHANGED <<now, breaker, gauge, requests, cache, config, inv, streak, reopenedAt,
                 stored, pendingUpdates>>

NextLimiter ==
  \/ \E chatId \in LimiterChats : CallCanSendToChat(chatId)
  \/ \E chatId \in LimiterChats : CallGetWaitTimeForChat(chatId)
  \/ \E chatId \in LimiterChats : CallRecordChatMessage(chatId)
  \/ \E t \in LimiterInstants : t > now /\ Tick(t - now)

\* the limiter has recorded GroupBacklog sends to the chat -7 at time T0
InitLimiter ==
  InitFrom(Configs,
           [chatTimestamps |-> MapPut(EmptyMap, String(Num(0 - 7)),
                                      [k \in 1..GroupBacklog |-> T0]),
            lastCleanup |-> T0])

SpecLimiter == InitLimiter /\ [][NextLimiter]_vars

\* the same calls over two minutes, long enough for cleanup to be due twice
SweepChats == {Num(0 - 7), Num(111), Num(222)}
SweepInstants == {T0, T0 + 59999, T0 + 60000, T0 + 60500, T0 + 119999, T0 + 120000}

NextSweep ==
  \/ \E chatId \in SweepChats : CallCanSendToChat(chatId)
  \/ \E chatId \in SweepChats : CallGetWaitTimeForChat(chatId)
  \/ \E chatId \in SweepChats : CallRecordChatMessage(chatId)
  \/ \E t \in SweepInstants :
       /\ t > now
       /\ now' = t
       /\ last' = NoOp
       /\ UNCHANGED <<breaker, gauge, requests, chatTimestamps, lastCleanup, cache, config,
                      inv, streak, reopenedAt, stored, pendingUpdates, unswept>>

SpecSweep == InitLimiter /\ [][NextSweep]_vars

\* ------------------------------------------------------------------ the error classifier alone
\* categorizeError called directly on envelopes with ok = false
TimeoutDescription ==
  <<"R", "e", "q", "u", "e", "s", "t", " ", "t", "i", "m", "e", "o", "u", "t",
    " ", "a", "f", "t", "e", "r", " ", "3", "0", "0", "0", "0", "m", "s">>

CallCategorizeError(response) ==
  /\ last' = [op |-> "categorizeError", arg |-> response, ret |-> categorizeError(response)]
  /\ UNCHANGED <<now, breaker, gauge, requests, chatTimestamps, lastCleanup, cache, config,
                 inv, streak, reopenedAt, stored, pendingUpdates, unswept>>

NextCategorize ==
  \E code \in {Undefined, 0, 1, 302, 399, 400, 403, 429, 430, 499, 500, 503},
     description \in
      {Undef, Str(<<>>), Str(TimeoutDescription),
      Str(<<"S", "e", "r", "v", "i", "c", "e", " ", "t", "e", "m", "p", "o", "r", "a",
          "r", "i", "l", "y", " ", "u", "n", "a", "v", "a", "i", "l", "a", "b", "l",
          "e", " ", "(", "c", "i", "r", "c", "u", "i", "t", " ", "b", "r", "e", "a",
          "k", "e", "r", " ", "o", "p", "e", "n", ")", ".", " ", "T", "r", "y", " ",
          "a", "g", "a", "i", "n", " ", "l", "a", "t", "e", "r", ".">>),
      Str(<<"G", "a", "t", "e", "w", "a", "y", " ", "T", "i", "m", "e", "o", "u", "t">>),
      Str(<<"T", "I", "M", "E", "O", "U", "T">>),
      Str(<<"t", "i", "m", "e", " ", "o", "u", "t">>),
      Str(<<"C", "i", "r", "c", "u", "i", "t", " ", "B", "r", "e", "a", "k", "e", "r">>),
      Str(<<"c", "i", "r", "c", "u", "i", "t", " ", "b", "r", "e", "a", "k", "e", "r",
            " ", "t", "i", "m", "e", "o", "u", "t">>),
      Str(<<"B", "a", "d", " ", "R", "e", "q", "u", "e", "s", "t">>)} :
    CallCategorizeError([ok |-> FALSE, error_code |-> code, description |-> description])

SpecCategorize == Init /\ [][NextCategorize]_vars

\* ------------------------------------------------------------------ health alone
\* getHealthStatus() read at any time while the breaker and the global
\* limiter are driven directly
MaxHealthRequests == 3     \* instants the global limiter holds at once

CallRecordRequest ==
  /\ Len(requests) < MaxHealthRequests
  /\ requests' = recordRequest(requests, now)
  /\ last' = [op |-> "recordRequest", at |-> now]
  /\ UNCHANGED <<now, breaker, gauge, chatTimestamps, lastCleanup, cache, config, inv,
                 streak, reopenedAt, stored, pendingUpdates, unswept>>

CallGetHealthStatus ==
  LET h == getHealthStatus(Shared, config, now) IN
  /\ Becomes(h.st)
  /\ last' = [op |-> "getHealthStatus", status |-> h.status, state |-> h.state,
              limited |-> h.limited, at |-> now, pre |-> breaker]
  /\ UNCHANGED <<now, config, inv, streak, reopenedAt, stored, pendingUpdates, unswept>>

CallIsReady ==
  LET r == isReady(breaker, now) IN
  /\ breaker' = r.b
  /\ last' = [op |-> "isReady", ret |-> r.ret, at |-> now, pre |-> breaker]
  /\ UNCHANGED <<now, gauge, requests, chatTimestamps, lastCleanup, cache, config, inv,
                 streak, reopenedAt, stored, pendingUpdates, unswept>>

NextHealth ==
  \/ CallIsReady
  \/ CallRecordSuccess
  \/ \E errorCode \in {500, Undefined} : CallRecordFailure(errorCode)
  \/ CallRecordRequest
  \/ CallGetHealthStatus
  \/ \E d \in BreakerSteps : Tick(d)

SpecHealth == InitWith(BudgetConfigs) /\ [][NextHealth]_vars

\* ------------------------------------------------------------------ the webhook queue alone
MAX_PENDING_UPDATES == 1000

RECURSIVE shiftWhileOver(_)
shiftWhileOver(queue) ==
  IF Len(queue) > MAX_PENDING_UPDATES THEN shiftWhileOver(Tail(queue)) ELSE queue

\* lines 310-316: push, then shift while the length exceeds the limit
storeUpdate_DropsNewest(queue, update) ==
  IF Len(queue) >= MAX_PENDING_UPDATES THEN queue ELSE Append(queue, update)

storeUpdate(queue, update) == shiftWhileOver(Append(queue, update))

\* handleWebhookRequest from the end of readBody: the status sent and the
\* queue afterwards; a body is [json, update_id], update_id = Undefined when
\* the parsed object has no numeric update_id
handleWebhookRequest(queue, method, authorized, body) ==
  IF method # "POST" THEN [status |-> 405, queue |-> queue]
  ELSE IF ~authorized THEN [status |-> 401, queue |-> queue]
  ELSE IF ~body.json \/ body.update_id = Undefined THEN [status |-> 400, queue |-> queue]
  ELSE [status |-> 200, queue |-> storeUpdate(queue, body.update_id)]

\* getWebhookUpdates(limit): splice(0, Math.min(limit, length))
getWebhookUpdates(queue, limit) ==
  LET count == Min(limit, Len(queue))
      deleted == IF count < 0 THEN 0 ELSE count
  IN [ret |-> SubSeq(queue, 1, deleted), queue |-> SubSeq(queue, deleted + 1, Len(queue))]

QueueBacklog == 998        \* updates 1..QueueBacklog are queued at the start
MaxUpdateId == 1002        \* the update_id of the last update Telegram posts

CallHandleWebhookRequest(method, authorized, body) ==
  LET r == handleWebhookRequest(pendingUpdates, method, authorized, body) IN
  /\ pendingUpdates' = r.queue
  /\ last' = [op |-> "webhook", status |-> r.status, update |-> body.update_id]
  /\ UNCHANGED <<now, breaker, gauge, requests, chatTimestamps, lastCleanup, cache, config,
                 inv, streak, reopenedAt, stored, unswept>>

CallGetWebhookUpdates(limit) ==
  LET r == getWebhookUpdates(pendingUpdates, limit) IN
  /\ pendingUpdates' = r.queue
  /\ last' = [op |-> "getWebhookUpdates", limit |-> limit, count |-> Len(r.ret)]
  /\ UNCHANGED <<now, breaker, gauge, requests, chatTimestamps, lastCleanup, cache, config,
                 inv, streak, reopenedAt, stored, unswept>>

\* Telegram posts updates of increasing update_id; other requests carry no
\* POST, a wrong secret, a body that is no JSON or an object with no update_id
NextWebhook ==
  \/ \E id \in (QueueBacklog + 1)..MaxUpdateId :
       /\ IF pendingUpdates = <<>> THEN TRUE ELSE id > pendingUpdates[Len(pendingUpdates)]
       /\ CallHandleWebhookRequest("POST", TRUE, [json |-> TRUE, update_id |-> id])
  \/ \E method \in {"POST", "GET"}, authorized \in BOOLEAN, json \in BOOLEAN :
       /\ CallHandleWebhookRequest(method, authorized,
                                   [json |-> json, update_id |-> Undefined])
  \/ \E id \in {MaxUpdateId} :
       CallHandleWebhookRequest("GET", FALSE, [json |-> TRUE, update_id |-> id])
  \/ \E limit \in {1, 100} : CallGetWebhookUpdates(limit)

SpecWebhook ==
  /\ InitQueue(Configs, [chatTimestamps |-> EmptyMap, lastCleanup |-> Undefined],
               [k \in 1..QueueBacklog |-> k])
  /\ [][NextWebhook]_vars

\* ------------------------------------------------------------------ properties of the breaker alone

\* C1: counting from a closed breaker with consecutiveFailures = 0 (the start, or
\* any reported success), the fifth qualifying failure with no success in between
\* moves the breaker from closed to open; with four or fewer it is still closed.
C1_FifthFailureOpens ==
  /\ streak <= 4 => breaker.state = "closed"
  /\ (last.op = "recordFailure" /\ Qualifying(last.arg) /\ streak = 5)
       => (last.pre.state = "closed" /\ breaker.state = "open")

C1_Witness ==
  last.op = "recordFailure" /\ streak = 5 /\ last.pre.consecutiveFailures = 4
  /\ breaker.state = "open"

\* C2: recordFailure with an error code below 500 leaves state,
\* consecutiveFailures and openedAt as they were, in every breaker state.
C2_NonQualifyingIsNoOp ==
  (last.op = "recordFailure" /\ ~Qualifying(last.arg)) => breaker = last.pre

C2_Witness ==
  last.op = "recordFailure" /\ last.arg = 429 /\ last.pre.state = "half-open"
  /\ last.pre.consecutiveFailures >= threshold

\* C5: the open to half-open transition happens only in an admission check
\* (isOpen) made at now - openedAt >= 30000; that check admits, and every check
\* made while the breaker is half-open admits too and leaves it half-open.
C5_LazyHalfOpen ==
  /\ []((last.op = "isOpen" /\ last.pre.state = "open"
          /\ last.at - last.pre.openedAt >= resetMs)
         => (~last.ret /\ breaker.state = "half-open"))
  /\ []((last.op = "isOpen" /\ last.pre.state = "half-open")
         => (~last.ret /\ breaker = last.pre))
  /\ [][(breaker.state = "open" /\ breaker'.state = "half-open")
         => (last'.op = "isOpen" /\ now - breaker.openedAt >= resetMs)]_vars

C5_Witness ==
  last.op = "isOpen" /\ last.pre.state = "open" /\ breaker.state = "half-open"
  /\ last.at - last.pre.openedAt = resetMs

\* C6: after any reported success the breaker is closed with
\* consecutiveFailures = 0, in particular when it was half-open.
C6_SuccessCloses ==
  last.op = "recordSuccess"
    => (breaker.state = "closed" /\ breaker.consecutiveFailures = 0)

C6_Witness ==
  last.op = "recordSuccess" /\ last.pre.state = "half-open" /\ breaker.state = "closed"

\* C34: after every step that changes the breaker's phase (closed to open,
\* open to half-open, half-open to closed, half-open to open) the
\* breaker-state gauge shows the new phase.
C34_GaugeFollowsPhase ==
  [][breaker'.state # breaker.state
       => gauge' = circuitBreakerStateToNumber(breaker'.state)]_vars

\* ------------------------------------------------------------------ properties of the cache alone

\* C10 as stated: if setCache(m, p, v, ttl) was called at time t, with no
\* clearCacheForMethod(m) or clearCache() since, then getCached(m, p) at a
\* time t' with t' - t < ttl returns v.
C10_StoreThenLookup ==
  (last.op = "getCached" /\ stored.method = last.method /\ stored.params = last.params
   /\ last.at - stored.at < stored.ttl)
    => last.ret = stored.data

\* C10 amended: the same, when no later setCache(m, p, ...) has replaced the
\* entry either.
C10_LatestStoreThenLookup ==
  (last.op = "getCached" /\ stored.method = last.method /\ stored.params = last.params
   /\ ~stored.over /\ last.at - stored.at < stored.ttl)
    => last.ret = stored.data

C10_Witness ==
  /\ last.op = "getCached" /\ last.method = "getWebhookInfo" /\ last.ret = 2
  /\ stored.method = last.method /\ stored.params = last.params
  /\ ~stored.over /\ stored.ttl = 60000 /\ stored.at = T0 /\ last.at = T0 + 30000
  /\ Cardinality(DOMAIN cache) = 2

\* C11: a getCached that finds an entry at a time now >= expiresAt deletes the
\* entry and returns null.
C11_MissFromExpiryInstant ==
  [][LET key == generateKey(last'.method, last'.params) IN
     (last'.op = "getCached" /\ key \in DOMAIN cache /\ now >= cache[key].expiresAt)
       => (last'.ret = Null /\ key \notin DOMAIN cache')]_vars

\* C12: a value stored under a params object is returned by a lookup with a
\* params object of the same fields and values in any order, while the entry
\* is live and no later store, clearCacheForMethod or clearCache touched it.
C12_LookupUnderAnyFieldOrder ==
  (last.op = "getCached" /\ stored.method = last.method
   /\ SameObject(stored.params, last.params)
   /\ ~stored.over /\ last.at - stored.at < stored.ttl)
    => last.ret = stored.data

\* C13: setCache for a method that has no entry in CACHE_TTL leaves the cache
\* as it was, whatever its ttlMs argument.
C13_UnregisteredStoreIgnored ==
  [][(last'.op = "setCache" /\ CACHE_TTL(last'.method) = Undefined)
     => cache' = cache]_vars

\* C15: clearCacheForMethod(m) removes every entry of method m and leaves the
\* entries of the other methods as they were.
C15_EvictsOneMethodOnly ==
  [][last'.op = "clearCacheForMethod"
     => (/\ \A k \in DOMAIN cache' : k[1] # last'.method
         /\ \A k \in DOMAIN cache :
              k[1] # last'.method => (k \in DOMAIN cache' /\ cache'[k] = cache[k]))]_vars

C15_Witness ==
  /\ last.op = "clearCacheForMethod" /\ last.method = "getWebhookInfo" /\ last.removed = 1
  /\ \E k \in DOMAIN cache : k[1] = "sendMessage"

\* ------------------------------------------------------------------ properties of the per-chat limiter alone
\* the characters are an integer: an optional sign, then digits only
IsIntegerString(chars) ==
  LET body == IF chars # <<>> /\ Head(chars) \in {"-", "+"} THEN Tail(chars) ELSE chars
  IN body # <<>> /\ \A k \in 1..Len(body) : IsDigit(body[k])

\* a number below zero, given as a number or as the string of one, or a
\* string that is no integer
GroupRegime(chatId) ==
  IF chatId.t = "string"
  THEN ~IsIntegerString(chatId.v) \/ Head(chatId.v) = "-"
  ELSE chatId.v < 0

\* the instants among these that lie within the 60 s before t
RecentCount(timestamps, t) ==
  Cardinality({k \in 1..Len(timestamps) : timestamps[k] > t - windowMs})

\* the limiter had no sweep ever run, read at time t: it holds every instant
\* recorded and its cleanup is not due
NeverSwept(t) == [chatTimestamps |-> unswept, lastCleanup |-> t]

\* C40: a sweep comes no sooner than 60 s after the limiter was made or last
\* swept, it leaves every chat's instants of the trailing 60 s as they were,
\* and at the present and every later instant canSendToChat and
\* getWaitTimeForChat return for every chat what they would return had no
\* sweep ever run.
C40_SweepInvisible ==
  /\ [](\A chatId \in SweepChats : \A t \in SweepInstants :
         t >= now =>
           /\ canSendToChat(Limiter, chatId, t).ret
                = canSendToChat(NeverSwept(t), chatId, t).ret
           /\ getWaitTimeForChat(Limiter, chatId, t)
                = getWaitTimeForChat(NeverSwept(t), chatId, t))
  /\ [][lastCleanup' # lastCleanup =>
          /\ lastCleanup' = now
          /\ now - lastCleanup >= cleanupIntervalMs
          /\ \A chatId \in SweepChats :
               /\ Recent(TimestampsOf(Limiter', chatId), now)
                    = Recent(TimestampsOf(Limiter, chatId), now)
               /\ Recent(TimestampsOf(Limiter', chatId), now)
                    = Recent(TimestampsOf(NeverSwept(now), chatId), now)]_vars

\* a second sweep has run, a chat recorded before is no longer held, and the
\* chat -7 holds fewer instants than were recorded for it
C40_Witness ==
  /\ last.op \in {"canSendToChat", "getWaitTimeForChat"}
  /\ lastCleanup >= T0 + 2 * cleanupIntervalMs
  /\ \E id \in DOMAIN unswept : id \notin DOMAIN chatTimestamps
  /\ String(Num(0 - 7)) \in DOMAIN chatTimestamps
  /\ Len(chatTimestamps[String(Num(0 - 7))]) < Len(unswept[String(Num(0 - 7))])

\* C22: canSendToChat treats a chat as a group exactly when its id is a number
\* below zero (a number, or the string of one) or a string that is no integer:
\* for such a chat it returns true
\* iff fewer than 20 of the instants recorded for it lie within the last 60 s,
\* and for any other chat iff no instant is recorded or the last one is
\* 1000 ms old.
C22_GroupRegimeAndQuota ==
  last.op = "canSendToChat" =>
    (last.ret <=>
       IF GroupRegime(last.chatId)
       THEN RecentCount(last.pre, last.at) < groupMessagesPerMinute
       ELSE \/ last.pre = <<>>
            \/ last.at - last.pre[Len(last.pre)] >= privateMessageIntervalMs)

\* ------------------------------------------------------------------ properties of the error classifier alone
\* the rules that apply to an envelope, each with its rank in the list; the
\* rules on the code apply to an envelope that has one
ListedRules(response) ==
  LET d == response.description
      code == response.error_code
      hasCode == code # Undefined /\ code # 0
  IN {r \in {<<1, "TIMEOUT">>, <<2, "CIRCUIT_OPEN">>, <<3, "NETWORK">>,
              <<4, "RATE_LIMITED">>, <<5, "SERVER">>, <<6, "CLIENT">>} :
        CASE r[1] = 1 -> d.t = "string" /\ includes(toLowerCase(d.v), TimeoutWord)
          [] r[1] = 2 -> d.t = "string" /\ includes(d.v, CircuitBreakerWords)
          [] r[1] = 3 -> ~hasCode
          [] r[1] = 4 -> hasCode /\ code = 429
          [] r[1] = 5 -> hasCode /\ code >= 500
          [] OTHER -> hasCode /\ code >= 400}

\* the category of the rule of lowest rank among these, "none" when there is
\* no rule
FirstMatch(rules) ==
  IF rules = {} THEN "none"
  ELSE (CHOOSE r \in rules : \A q \in rules : r[1] <= q[1])[2]

\* C28: the category of every envelope with ok = false is that of the first
\* of the six listed rules that applies to it (timeout, circuit breaker, no
\* code, 429, >= 500, >= 400).
C28_FirstListedRule ==
  last.op = "categorizeError" => last.ret = FirstMatch(ListedRules(last.arg))

\* C28, amended: the category of every envelope with ok = false is that of
\* the first of the six listed rules that applies to it, and NETWORK when
\* none does (a code from 1 to 399 and a description that mentions neither).
C28_FirstRuleOrNetwork ==
  last.op = "categorizeError" =>
    last.ret = FirstMatch(ListedRules(last.arg) \cup {<<7, "NETWORK">>})

\* an envelope with a code of 500 whose description mentions a timeout is
\* classified by its description
C28_Witness ==
  /\ last.op = "categorizeError" /\ last.arg.error_code = 500
  /\ last.arg.description = Str(TimeoutDescription) /\ last.ret = "TIMEOUT"

\* ------------------------------------------------------------------ properties of health alone
\* C29: the status getHealthStatus() returns is a function of the breaker and
\* the global limiter as the read leaves them: unhealthy iff the breaker is
\* open; degraded iff it is not open and it is half-open or the window holds
\* rateLimitPerMinute instants of the last 60 s or more; healthy otherwise.
C29_HealthFromState ==
  last.op = "getHealthStatus" =>
    LET saturated == RecentCount(requests, now) >= config.rateLimitPerMinute IN
    /\ last.status = "unhealthy" <=> breaker.state = "open"
    /\ last.status = "degraded"
         <=> (breaker.state # "open" /\ (breaker.state = "half-open" \/ saturated))
    /\ last.status = "healthy"
         <=> (breaker.state = "closed" /\ ~saturated)
    /\ last.status \in {"unhealthy", "degraded", "healthy"}

\* with the breaker closed and the window full the status is degraded
C29_Witness ==
  /\ last.op = "getHealthStatus" /\ last.status = "degraded"
  /\ breaker.state = "closed" /\ Len(requests) >= config.rateLimitPerMinute

\* C38: a read of health or readiness leaves consecutiveFailures and openedAt
\* as they were; it turns an open breaker half-open when made 30000 ms or
\* more after openedAt and leaves the phase as it was otherwise; readiness
\* is true iff the breaker is not open after the read.
C38_ReadIsAdmissionCheck ==
  last.op \in {"getHealthStatus", "isReady"} =>
    /\ breaker.consecutiveFailures = last.pre.consecutiveFailures
    /\ breaker.openedAt = last.pre.openedAt
    /\ breaker.state = (IF last.pre.state = "open" /\ last.at - last.pre.openedAt >= 30000
                        THEN "half-open" ELSE last.pre.state)
    /\ last.op = "isReady" => (last.ret <=> breaker.state # "open")
    /\ last.op = "getHealthStatus" => last.state = breaker.state

\* a readiness read made 30000 ms after the breaker opened turns it
\* half-open and reports true
C38_Witness ==
  /\ last.op = "isReady" /\ last.ret
  /\ last.pre.state = "open" /\ last.at - last.pre.openedAt = 30000
  /\ breaker.state = "half-open"

\* ------------------------------------------------------------------ properties of the webhook queue alone
\* C33: the queue never holds more than 1000 updates, and a request that is
\* accepted (status 200) leaves in it the last 1000 of the updates it held
\* followed by the new one, in that order.
C33_QueueCapped ==
  /\ [](Len(pendingUpdates) <= 1000)
  /\ [][(last'.op = "webhook" /\ last'.status = 200)
         => LET all == pendingUpdates \o <<last'.update>>
                from == IF Len(all) > 1000 THEN Len(all) - 1000 ELSE 0
            IN pendingUpdates' = [k \in 1..(Len(all) - from) |-> all[from + k]]]_vars

\* the queue is full, the update just accepted is at its tail and the two
\* oldest updates have been dropped
C33_Witness ==
  /\ last.op = "webhook" /\ last.status = 200
  /\ Len(pendingUpdates) = 1000 /\ pendingUpdates[1] = 3
  /\ pendingUpdates[1000] = last.update

\* ------------------------------------------------------------------ properties of the pipeline

\* a step of callTelegramAPI from its entry: it returns before the loop, or
\* it passes every check and starts its first fetch
Entered == last.op = "attempt" /\ last.first
Refused(via) == last.op = "return" /\ last.via = via
\* the invocation that has just entered: its method, params and options
EnteredCall == inv[last.slot]

\* C3: once the breaker has opened, no invocation passes the breaker check at
\* a time before openedAt + 30000, whatever the invocations in flight report.
C3_OpenRefusesUntilReset ==
  ~(Entered /\ breaker.openedAt # 0 /\ now - breaker.openedAt < resetMs)

\* C7: after a qualifying final failure of an invocation made
\* while the breaker was half-open, no invocation passes the breaker check
\* for 30000 ms.
C7_RefusedAfterReopen ==
  ~(Entered /\ reopenedAt # 0 /\ now - reopenedAt < resetMs)

\* C4: with maxRetries = 0, once five invocations in a row have ended in a
\* transport error the breaker is open; an invocation made while it is open
\* and less than 30000 ms after openedAt, if not answered by the cache, returns
\* {ok: false, error_code: 503, "... circuit breaker open ..."}, starts no
\* fetch and leaves both limiters as they were.
C4_OpenRejectsWithoutTransport ==
  /\ []((Refused("failure") /\ streak >= threshold) => breaker.state = "open")
  /\ [][(/\ breaker.state = "open" /\ now - breaker.openedAt < resetMs
          /\ \/ last'.op = "attempt" /\ last'.first
             \/ last'.op = "return"
                /\ last'.via \in {"circuit", "global", "per_chat", "upload"})
         => (/\ last'.op = "return" /\ last'.via = "circuit"
             /\ last'.resp.ok = FALSE /\ last'.resp.error_code = 503
             /\ last'.resp.description = "circuit breaker open"
             /\ inv' = inv
             /\ UNCHANGED <<requests, chatTimestamps, lastCleanup>>)]_vars

C4_Witness ==
  /\ Refused("circuit") /\ last.resp.error_code = 503
  /\ streak = threshold /\ breaker.state = "open" /\ config.maxRetries = 0
  /\ Len(requests) = threshold /\ \A i \in Slots : inv[i].pc = "idle"

\* C8: an invocation that reaches the loop reports to the breaker exactly
\* once, when it returns: recordSuccess on success, recordFailure(error_code)
\* on the final failure; an attempt that is followed by a retry leaves the
\* breaker as it was.
C8_OneBreakerReport ==
  /\ []((last.op = "return" /\ last.via \in {"success", "failure"}) => last.reports = 1)
  /\ [](\A i \in Slots : inv[i].pc \in {"fetch", "sleep"} => inv[i].reports = 0)
  /\ [][/\ last'.op = "retry" => breaker' = breaker
        /\ (last'.op = "return" /\ last'.via = "success")
             => breaker' = recordSuccess(breaker)
        /\ (last'.op = "return" /\ last'.via = "failure")
             => breaker' = recordFailure(breaker, last'.resp.error_code, now)]_vars

C8_Witness ==
  /\ Refused("failure") /\ last.http = 2 /\ last.reports = 1
  /\ last.resp.error_code = Undefined /\ breaker.consecutiveFailures = 1

\* C9: an invocation answered by the cache returns {ok: true, result: the
\* cached value}, starts no fetch and leaves the global limiter, the per-chat
\* limiter and the breaker as they were.
C9_CacheHitTouchesNothing ==
  [][(last'.op = "return" /\ last'.via = "cache")
     => (/\ last'.key \in DOMAIN cache
         /\ last'.resp.ok /\ last'.resp.result = cache[last'.key].data
         /\ inv' = inv
         /\ UNCHANGED <<breaker, gauge, requests, chatTimestamps, lastCleanup>>)]_vars

C9_Witness ==
  /\ Refused("cache") /\ last.resp.result = 1
  /\ breaker.state = "open" /\ now - breaker.openedAt < resetMs
  /\ Len(requests) > threshold

\* C14: while the cache holds the result of a successful invocation of a
\* cacheable method, stored less than its TTL ago, no invocation of that
\* method with a params object of the same fields and values reaches the
\* loop (it is answered by the cache).
C14_RepeatWithinTtlIsCached ==
  ~(/\ Entered
    /\ \E k \in DOMAIN cache :
         /\ k[1] = EnteredCall.method /\ SameObject(k[2], EnteredCall.params)
         /\ now < cache[k].expiresAt)

\* C16: an invocation that reaches the global check passes it only while the
\* window holds fewer than rateLimitPerMinute instants of the last 60 s;
\* otherwise it returns {ok: false, error_code: 429, retry_after:
\* ceil(waitMs / 1000)} with 0 < waitMs <= 60000 and starts no fetch.
C16_BudgetSpentRefuses ==
  [][LET kept == cleanup(requests, now)
         waitMs == getWaitTime(requests, config.rateLimitPerMinute, now)
     IN
     /\ (Entered' /\ ~EnteredCall'.opts.skipRateLimit)
          => Len(kept) < config.rateLimitPerMinute
     /\ Refused("global")'
          => (/\ Len(kept) >= config.rateLimitPerMinute
              /\ waitMs > 0 /\ waitMs <= windowMs
              /\ last'.resp.ok = FALSE /\ last'.resp.error_code = 429
              /\ last'.resp.retry_after = CeilSeconds(waitMs)
              /\ inv' = inv)]_vars

C16_Witness ==
  /\ Refused("global") /\ Len(requests) = Budget /\ requests[Budget] = now
  /\ last.resp.retry_after = 30 /\ config.rateLimitPerMinute = Budget

\* C17: every step that starts a fetch, first attempt or retry, appends one
\* instant (now) to the global window, and no other step appends any; an
\* invocation that has made k fetches has appended k instants.
C17_OneRecordPerAttempt ==
  /\ [][/\ last'.op = "attempt"
             => \E r \in {requests, cleanup(requests, now)} : requests' = Append(r, now)
        /\ last'.op # "attempt" => Len(requests') <= Len(requests)]_vars
  /\ [](last.op = "return" => last.recs = last.http)
  /\ [](\A i \in Slots : inv[i].pc # "idle" => inv[i].recs = inv[i].http)

C17_Witness ==
  /\ last.op = "return" /\ last.via = "failure" /\ last.http = 2 /\ last.recs = 2
  /\ Len(requests) = 2

\* C18 as stated: an invocation that returns ok = true has appended exactly
\* one instant to the global window.
C18_OneRecordPerSuccess ==
  (last.op = "return" /\ last.resp.ok) => last.recs = 1

\* C18 amended: an invocation that returns ok = true has appended one instant
\* per fetch it made: none when the cache answered, one or more otherwise.
C18_RecordPerFetchOnSuccess ==
  (last.op = "return" /\ last.resp.ok)
    => (/\ last.recs = last.http
        /\ last.via = "cache" => last.recs = 0
        /\ last.via = "success" => last.recs >= 1)

C18_Witness ==
  last.op = "return" /\ last.resp.ok /\ last.via = "success" /\ last.recs = 2

\* a chat id the limiter counts as private: a number >= 0
Private(chatId) == chatId.t = "number" /\ chatId.v >= 0
\* less than 1000 ms have passed since the last send recorded for the chat
SentWithinInterval(chatId) ==
  LET timestamps == TimestampsOf(Limiter, chatId) IN
  timestamps # <<>> /\ now - timestamps[Len(timestamps)] < privateMessageIntervalMs

\* C19: an invocation that carries skipRateLimit is never refused by the
\* global limiter, and it does not pass the per-chat check when its method is
\* a message-sending one, its params carry a chat_id and the per-chat limiter
\* refuses that chat.
C19_SkipBypassesGlobalOnly ==
  /\ ~(Refused("global") /\ last.skip)
  /\ ~(/\ Entered /\ EnteredCall.opts.skipRateLimit
       /\ EnteredCall.method \in MESSAGE_SENDING_METHODS
       /\ Get(EnteredCall.params, "chat_id").t # "undefined"
       /\ ~canSendToChat(Limiter, Get(EnteredCall.params, "chat_id"), now).ret)

\* C20: a send to a private chat invoked less than 1000 ms after the last
\* send recorded for that chat does not reach the loop; refused by the
\* per-chat check it returns {ok: false, error_code: 429, "Per-chat rate limit
\* exceeded"} with no fetch; the per-chat check refuses no send made 1000 ms
\* or more after the last one.
C20_PrivateChatOnePerSecond ==
  /\ ~(/\ Entered /\ EnteredCall.method \in MESSAGE_SENDING_METHODS
       /\ Private(Get(EnteredCall.params, "chat_id"))
       /\ SentWithinInterval(Get(EnteredCall.params, "chat_id")))
  /\ Refused("per_chat")
       => (/\ last.resp.ok = FALSE /\ last.resp.error_code = 429
           /\ last.resp.description = "Per-chat rate limit exceeded"
           /\ last.http = 0
           /\ Private(Get(last.key[2], "chat_id"))
                => SentWithinInterval(Get(last.key[2], "chat_id")))

\* C21: no two sends to the same private chat, neither of them carrying
\* skipRateLimit, are both awaiting their first fetch having been dispatched
\* less than 1000 ms apart.
C21_PrivateSendsOneSecondApart ==
  \A i, j \in Slots :
    (/\ i # j
     /\ inv[i].pc = "fetch" /\ inv[j].pc = "fetch"
     /\ inv[i].attempt = 0 /\ inv[j].attempt = 0
     /\ inv[i].method \in MESSAGE_SENDING_METHODS
     /\ inv[j].method \in MESSAGE_SENDING_METHODS
     /\ ~inv[i].opts.skipRateLimit /\ ~inv[j].opts.skipRateLimit
     /\ Private(Get(inv[i].params, "chat_id"))
     /\ Get(inv[i].params, "chat_id") = Get(inv[j].params, "chat_id"))
    => (/\ inv[i].sentAt - inv[j].sentAt >= privateMessageIntervalMs
          \/ inv[j].sentAt - inv[i].sentAt >= privateMessageIntervalMs)

\* an instant is added to the per-chat limiter under the key of chatId
Adds(chatId) ==
  Len(TimestampsOf(Limiter', chatId)) > Len(TimestampsOf(Limiter, chatId))

\* C23: a step that records a send for one chat changes neither what
\* canSendToChat returns nor what getWaitTimeForChat returns for any other
\* chat.
C23_RecordLeavesOtherChats ==
  [][\A a, b \in {Num(111), Num(222)} :
       (a # b /\ Adds(a)) =>
          /\ canSendToChat(Limiter', b, now').ret = canSendToChat(Limiter, b, now).ret
          /\ getWaitTimeForChat(Limiter', b, now') = getWaitTimeForChat(Limiter, b, now)]_vars

\* two sends, to 111 and to 222, have both succeeded at the same instant
C23_Witness ==
  /\ last.op = "return" /\ last.via = "success" /\ last.http = 1
  /\ TimestampsOf(Limiter, Num(111)) = <<now>>
  /\ TimestampsOf(Limiter, Num(222)) = <<now>>

\* C24: only an invocation of a message-sending method whose params carry a
\* chat_id is refused by the per-chat check, and an instant is added to the
\* per-chat limiter only when such an invocation completes, under the key of
\* its chat_id.
C24_OnlySendsWithChatId ==
  [][/\ (last'.op = "return" /\ last'.via = "per_chat")
          => (/\ last'.key[1] \in MESSAGE_SENDING_METHODS
              /\ Get(last'.key[2], "chat_id").t # "undefined")
     /\ \A k \in DOMAIN chatTimestamps' :
          (k \notin DOMAIN chatTimestamps \/ Len(chatTimestamps'[k]) > Len(chatTimestamps[k]))
          => \E i \in Slots :
               /\ inv[i].pc = "fetch" /\ inv'[i].pc = "idle"
               /\ inv[i].method \in MESSAGE_SENDING_METHODS
               /\ Get(inv[i].params, "chat_id").t # "undefined"
               /\ String(Get(inv[i].params, "chat_id")) = k]_vars

\* a getChat for the chat 111 enters the loop less than 1000 ms after a send
\* to 111 was recorded
C24_Witness ==
  /\ Entered /\ EnteredCall.method = "getChat"
  /\ Get(EnteredCall.params, "chat_id") = Num(111)
  /\ SentWithinInterval(Num(111))

\* an envelope of the upstream with an error code in 4xx other than 429
ClientError(resp) ==
  /\ resp.error_code # Undefined
  /\ resp.error_code >= 400 /\ resp.error_code < 500 /\ resp.error_code # 429

\* C25: when a fetch is answered with an error code in 4xx other than 429 the
\* invocation returns at once, whatever maxRetries is: it makes no further
\* attempt (one attempt in all when the reply answers the first), it returns
\* the envelope of the upstream as it came, and it leaves the breaker as it
\* was.
C25_ClientErrorNotRetried ==
  [][\A i \in Slots :
       (/\ inv[i].pc = "fetch" /\ inv'[i] # inv[i]
        /\ last'.op \in {"return", "retry"} /\ ClientError(last'.resp))
       => (/\ last'.op = "return" /\ last'.via = "failure"
           /\ inv'[i].pc = "idle"
           /\ last'.http = inv[i].attempt + 1
           /\ last'.resp = Reply400.data
           /\ breaker' = breaker)]_vars

\* with one retry configured and the breaker closed at zero failures, an
\* invocation returns the 400 of the upstream after one attempt
C25_Witness ==
  /\ last.op = "return" /\ last.via = "failure" /\ last.resp = Reply400.data
  /\ last.http = 1 /\ config.maxRetries >= 1
  /\ breaker.state = "closed" /\ breaker.consecutiveFailures = 0

\* an envelope of a retriable outcome: 429, a code >= 500, or the envelope
\* built when fetch throws
RetriableOutcome(resp) ==
  IF resp.error_code = Undefined
  THEN resp \in {Thrown(TRUE), Thrown(FALSE)}
  ELSE resp.error_code = 429 \/ resp.error_code >= 500

\* C26: an invocation makes at most 1 + maxRetries fetches, and when it
\* returns on a retriable outcome (every attempt before it ended in one too)
\* it has made exactly 1 + maxRetries.
C26_AttemptsBounded ==
  [][\A i \in Slots :
       /\ inv'[i].pc # "idle" => inv'[i].http <= 1 + MaxRetriesOf(inv'[i].opts, config)
       /\ (/\ inv[i].pc = "fetch" /\ inv'[i].pc = "idle"
           /\ last'.op = "return" /\ RetriableOutcome(last'.resp))
          => last'.http = 1 + MaxRetriesOf(inv[i].opts, config)]_vars

\* an invocation with maxRetries = DeepRetries returns the 500 of the
\* upstream after 1 + DeepRetries fetches
C26_Witness ==
  /\ last.op = "return" /\ last.via = "failure" /\ last.resp = Reply500.data
  /\ last.http = 1 + DeepRetries

\* C27: the delay before the retry that follows the failed attempt i is
\* 1000 * v ms when the reply carried retry_after = v, whatever v is, and
\* min(1000 * 2^i, 30000) ms when it carried none.
C27_RetryDelay ==
  last.op = "retry" =>
    last.delay = (IF last.resp.retry_after # Undefined
                  THEN 1000 * last.resp.retry_after
                  ELSE IF 1000 * (2 ^ last.attempt) < 30000
                       THEN 1000 * (2 ^ last.attempt) ELSE 30000)

\* C35: in every state, whatever the invocations in flight have reported:
\* a closed breaker has consecutiveFailures <= 4, an open or half-open one
\* has consecutiveFailures >= 5.
C35_PhaseMatchesCount ==
  /\ breaker.state = "closed" => breaker.consecutiveFailures <= 4
  /\ breaker.state \in {"open", "half-open"} => breaker.consecutiveFailures >= 5

\* the breaker is open at six failures: an invocation admitted before it
\* opened has failed since, and another is still in flight
C35_Witness ==
  /\ breaker.state = "open" /\ breaker.consecutiveFailures = 6
  /\ Refused("failure") /\ \E i \in Slots : inv[i].pc = "fetch"

\* C36: consecutiveFailures goes down only in the step of a reported success;
\* it equals the number of qualifying failures reported since the last
\* success, whatever refusals and failures with a 4xx code came between, so
\* at five of them the breaker is not closed.
C36_OnlySuccessResets ==
  /\ [](breaker.consecutiveFailures = streak)
  /\ [](streak >= 5 => breaker.state \in {"open", "half-open"})
  /\ [][breaker'.consecutiveFailures < breaker.consecutiveFailures
         => (last'.op = "return" /\ last'.via = "success")]_vars
  /\ [][(last'.op = "return" /\ last' # last /\ last'.via # "success")
         => breaker'.consecutiveFailures >= breaker.consecutiveFailures]_vars

\* after four qualifying failures an invocation is refused by the global
\* limiter and the count is still four
C36_Witness ==
  /\ Refused("global") /\ streak = 4 /\ breaker.consecutiveFailures = 4
  /\ breaker.state = "closed"

\* C37: openedAt changes only in a step that takes the breaker from closed
\* or half-open to open; a failure reported while it is open leaves openedAt
\* as it was.
C37_OpenedAtSetOnOpening ==
  [][breaker'.openedAt # breaker.openedAt
       => (breaker.state # "open" /\ breaker'.state = "open")]_vars

\* C39: with no invocation carrying skipRateLimit, the instants recorded for
\* fetches (first attempts and retries) within the last 60 s are never more
\* than rateLimitPerMinute.
C39_WindowWithinBudget ==
  RecentCount(requests, now) <= config.rateLimitPerMinute

\* a slot of the method holds a string that starts with file:// and the path
\* after the prefix does not exist or is no regular file
BadFileUrl(method, params) ==
  \E k \in 1..Len(FILE_UPLOAD_PARAMS(method)) :
    LET value == Get(params, FILE_UPLOAD_PARAMS(method)[k]) IN
    /\ value.t = "string" /\ StartsWith(value.v, FilePrefix)
    /\ LET path == SubSeq(value.v, Len(FilePrefix) + 1, Len(value.v)) IN
       ~(existsSync(path) /\ isFile(path))

\* C31: no invocation whose params hold, in an uploadable slot, a file:// URL
\* of a path that does not exist or is no regular file starts a fetch; when
\* the upload check answers, the envelope is {ok: false, error_code: 400} and
\* no fetch was made.
C31_BadFileUrlRefused ==
  /\ ~(Entered /\ BadFileUrl(EnteredCall.method, EnteredCall.params))
  /\ Refused("upload")
       => (last.resp.ok = FALSE /\ last.resp.error_code = 400 /\ last.http = 0)

\* C32: every invocation returns an envelope, ok = true or ok = false with a
\* description; a refusal by the breaker or a limiter returns in the step of
\* the call, with no fetch and no wait; and an invocation that awaits a fetch
\* or sleeps before a retry eventually returns.
C32_EveryInvocationReturns ==
  /\ [](last.op = "return"
          => (last.resp.ok = TRUE \/ (last.resp.ok = FALSE /\ last.resp.description # "none")))
  /\ [][(last'.op = "return" /\ last'.via \in {"circuit", "global", "per_chat"})
          => (now' = now /\ inv' = inv /\ last'.http = 0)]_vars
  /\ \A i \in Slots : (inv[i].pc # "idle") ~> (inv[i].pc = "idle")

\* an invocation returns the envelope of a timed-out fetch after its retry
C32_Witness ==
  /\ last.op = "return" /\ last.via = "failure" /\ last.http = 1 + Retries
  /\ last.resp = Thrown(TRUE)

\* params the validator rejects: a sendMessage or getChat whose chat_id is
\* missing or an empty string, a sendMessage whose text is missing, no
\* string or empty
Rejected(method, params) ==
  LET chatId == Get(params, "chat_id")
      text == Get(params, "text")
  IN \/ /\ method \in {"sendMessage", "getChat"}
        /\ chatId.t = "undefined" \/ chatId = Str(<<>>)
     \/ /\ method = "sendMessage"
        /\ text.t # "string" \/ text = Str(<<>>)

\* C30: a tool call whose params the validator rejects returns an error whose
\* text begins "Validation failed: " and leaves the cache, both limiters, the
\* breaker and the invocations in flight as they were; no call whose params
\* the validator rejects enters callTelegramAPI. In the server with the meta
\* tools the validator is applied to params that carry every required field.
C30_InvalidParamsShortCircuit ==
  [][/\ (last'.op = "return" /\ last'.via = "validation")
          => (/\ Rejected(last'.key[1], last'.key[2])
              /\ StartsWith(last'.resp.text, <<"Validation failed: ">>)
              /\ UNCHANGED <<cache, requests, chatTimestamps, lastCleanup, breaker, gauge,
                             inv>>)
     /\ (last'.op = "return" /\ last' # last
         /\ last'.via \in {"cache", "circuit", "global", "per_chat", "upload"})
          => ~Rejected(last'.key[1], last'.key[2])
     /\ (last'.op = "attempt" /\ last'.first)
          => ~Rejected(inv'[last'.slot].method, inv'[last'.slot].params)]_vars

\* a sendMessage whose text is a number is turned down by the validator
\* while the cache holds an entry and the global window an instant
C30_Witness ==
  /\ last.op = "return" /\ last.via = "validation"
  /\ last.key = <<"sendMessage", <<<<"chat_id", Num(5)>>, <<"text", Num(1)>>>> >>
  /\ last.resp.text = <<"Validation failed: ", "text">>
  /\ cache # EmptyMap /\ requests # <<>>

====
